---- MODULE Spec2Model ----
(***************************************************************************)
(* Invoice Generator: the domain model (models.py), the lenient parser and *)
(* the currency formatter (utils.py), the JSON persistence (storage.py),   *)
(* the PDF renderer (pdf.py), the render command (scripts/cli.py) and the  *)
(* desktop form (gui.py).                                                  *)
(*                                                                         *)
(* A Python str is the sequence of its one-character strings, wrapped with *)
(* its type where a value of another type may stand in its place.  A       *)
(* decimal.Decimal is the triple the library keeps (sign, coefficient,     *)
(* exponent) plus the marker of a special value.  A call that raises       *)
(* yields the exception in place of its value.                             *)
(***************************************************************************)
EXTENDS Integers, Sequences, FiniteSets, TLC

VARIABLES invoice, document, loaded, files, dirs, arg, ret, pc, form, rows, dialog, shown, stdout

vars == <<invoice, document, loaded, files, dirs, arg, ret, pc, form, rows, dialog, shown, stdout>>

\* the desktop form, its items table, the open item dialog, the message boxes
\* shown, and the lines printed
front == <<form, rows, dialog, shown, stdout>>

\* no window is open and nothing was printed
NoFrontEnd ==
    /\ form = [t |-> "NoneType"]
    /\ rows = <<>>
    /\ dialog = [t |-> "NoneType"]
    /\ shown = <<>>
    /\ stdout = <<>>

(***************************************************************************)
(* Text helpers: the str methods the code calls.                           *)
(***************************************************************************)
DigitChars == <<"0", "1", "2", "3", "4", "5", "6", "7", "8", "9">>

IsDigit(c) == \E i \in 1..10 : DigitChars[i] = c

DigitVal(c) == (CHOOSE i \in 1..10 : DigitChars[i] = c) - 1

AllDigits(s) == \A i \in 1..Len(s) : IsDigit(s[i])

\* str(n) for an int n >= 0
RECURSIVE IntStr(_)
IntStr(n) ==
    IF n < 10 THEN <<DigitChars[n + 1]>>
    ELSE IntStr(n \div 10) \o <<DigitChars[(n % 10) + 1]>>

\* int(s) for a str of digits; int("") is not called (the code passes "0")
RECURSIVE StrInt(_)
StrInt(s) ==
    IF s = <<>> THEN 0
    ELSE StrInt(SubSeq(s, 1, Len(s) - 1)) * 10 + DigitVal(s[Len(s)])

\* "0" * n
Zeros(n) == [i \in 1..n |-> "0"]

\* "%0<w>d" % n
ZeroPad(n, w) == Zeros(w - Len(IntStr(n))) \o IntStr(n)

Abs(n) == IF n < 0 THEN -n ELSE n

Min(a, b) == IF a < b THEN a ELSE b

RECURSIVE Pow10(_)
Pow10(k) == IF k <= 0 THEN 1 ELSE 10 * Pow10(k - 1)

\* str.lower on the letters the decimal grammar knows
LowerChar(c) ==
    CASE c = "E" -> "e"
      [] c = "I" -> "i"
      [] c = "N" -> "n"
      [] c = "F" -> "f"
      [] c = "T" -> "t"
      [] c = "Y" -> "y"
      [] c = "A" -> "a"
      [] c = "S" -> "s"
      [] OTHER -> c

Lower(s) == [i \in 1..Len(s) |-> LowerChar(s[i])]

IsSpace(c) == c \in {" ", "\t", "\n", "\r", "\f"}

\* str.strip()
RECURSIVE LStrip(_)
LStrip(s) ==
    IF s # <<>> /\ IsSpace(s[1]) THEN LStrip(Tail(s)) ELSE s

RECURSIVE RStrip(_)
RStrip(s) ==
    IF s # <<>> /\ IsSpace(s[Len(s)]) THEN RStrip(SubSeq(s, 1, Len(s) - 1)) ELSE s

Strip(s) == RStrip(LStrip(s))

\* str.replace(a, b) for one-character a and b
Replace(s, a, b) == [i \in 1..Len(s) |-> IF s[i] = a THEN b ELSE s[i]]

\* str.replace(a, "")
Remove(s, a) == SelectSeq(s, LAMBDA c : c # a)

\* the number of digits at the start of s[i..]
DigitRun(s, i) ==
    CHOOSE n \in 0..(Len(s) + 1 - i) :
        /\ \A k \in 0..(n - 1) : IsDigit(s[i + k])
        /\ (i + n > Len(s) \/ ~IsDigit(s[i + n]))

(***************************************************************************)
(* decimal.Decimal.  special is "" for a finite number, "F" for Infinity,  *)
(* "n" for NaN and "N" for sNaN (the library's own markers); the value of  *)
(* a finite number is (-1)^sign * coef * 10^exp.  An operation that raises *)
(* returns the exception in place of a value, and an operation applied to  *)
(* an exception passes it on, as the raise unwinds the caller.             *)
(***************************************************************************)
Prec == 28

Dec(sign, coef, exp) == [sign |-> sign, coef |-> coef, exp |-> exp, special |-> ""]

Special(sign, mark, diag) == [sign |-> sign, coef |-> diag, exp |-> 0, special |-> mark]

Raised(name) == [exc |-> name]

IsExc(v) == "exc" \in DOMAIN v

IsFinite(d) == ~IsExc(d) /\ d.special = ""

IsZero(d) == IsFinite(d) /\ d.coef = 0

NumDigits(n) == Len(IntStr(n))

\* Decimal.adjusted(): the exponent of the most significant digit
Adjusted(d) == d.exp + NumDigits(d.coef) - 1

\* Decimal._fix: round a result to the context precision (ROUND_HALF_EVEN)
Fix(d) ==
    IF NumDigits(d.coef) <= Prec THEN d
    ELSE LET k == NumDigits(d.coef) - Prec
             q == d.coef \div Pow10(k)
             r == d.coef % Pow10(k)
             half == 5 * Pow10(k - 1)
             up == r > half \/ (r = half /\ q % 2 = 1)
         IN Dec(d.sign, IF up THEN q + 1 ELSE q, d.exp + k)

\* Decimal.__str__
DecStr(d) ==
    LET sign == IF d.sign = 1 THEN <<"-">> ELSE <<>>
        int == IntStr(d.coef)
        leftdigits == d.exp + Len(int)
        dotplace == IF d.exp <= 0 /\ leftdigits > -6 THEN leftdigits ELSE 1
        intpart == IF dotplace <= 0 THEN <<"0">>
                   ELSE IF dotplace >= Len(int) THEN int \o Zeros(dotplace - Len(int))
                   ELSE SubSeq(int, 1, dotplace)
        fracpart == IF dotplace <= 0 THEN <<".">> \o Zeros(-dotplace) \o int
                    ELSE IF dotplace >= Len(int) THEN <<>>
                    ELSE <<".">> \o SubSeq(int, dotplace + 1, Len(int))
        e == leftdigits - dotplace
        exp == IF e = 0 THEN <<>>
               ELSE <<"E", IF e < 0 THEN "-" ELSE "+">> \o IntStr(Abs(e))
        diag == IF d.coef = 0 THEN <<>> ELSE int
    IN  CASE d.special = "F" -> sign \o <<"I", "n", "f", "i", "n", "i", "t", "y">>
          [] d.special = "n" -> sign \o <<"N", "a", "N">> \o diag
          [] d.special = "N" -> sign \o <<"s", "N", "a", "N">> \o diag
          [] OTHER -> sign \o intpart \o fracpart \o exp

\* Decimal(str): the library's grammar
\*   [sign] ( digits [. digits] [E [sign] digits] | Inf[inity] | [s]NaN[digits] )
\* after str.strip() and the removal of "_"; letters in either case.
HasSign(s) == s # <<>> /\ s[1] \in {"+", "-"}

\* the text b after the sign, and low, the same text in lower case
ParseUnsigned(sign, b, low) ==
    LET n1 == DigitRun(b, 1)
        p == 1 + n1
        hasDot == p <= Len(b) /\ b[p] = "."
        n2 == IF hasDot THEN DigitRun(b, p + 1) ELSE 0
        q == IF hasDot THEN p + 1 + n2 ELSE p
        hasExp == q <= Len(b) /\ low[q] = "e"
        hasExpSign == hasExp /\ q + 1 <= Len(b) /\ b[q + 1] \in {"+", "-"}
        x == IF hasExpSign THEN q + 2 ELSE q + 1
        n3 == IF hasExp THEN DigitRun(b, x) ELSE 0
        expOK == IF hasExp THEN n3 >= 1 /\ x + n3 = Len(b) + 1 ELSE q = Len(b) + 1
        expVal == IF ~hasExp THEN 0
                  ELSE IF hasExpSign /\ b[q + 1] = "-" THEN -StrInt(SubSeq(b, x, Len(b)))
                  ELSE StrInt(SubSeq(b, x, Len(b)))
        intpart == SubSeq(b, 1, n1)
        fracpart == IF hasDot THEN SubSeq(b, p + 1, p + n2) ELSE <<>>
        isNumber == (n1 >= 1 \/ (hasDot /\ n2 >= 1)) /\ expOK
        isInf == low \in {<<"i", "n", "f">>, <<"i", "n", "f", "i", "n", "i", "t", "y">>}
        signal == low # <<>> /\ low[1] = "s"
        nan == IF signal THEN Tail(low) ELSE low
        isNaN == /\ Len(nan) >= 3
                 /\ SubSeq(nan, 1, 3) = <<"n", "a", "n">>
                 /\ AllDigits(SubSeq(nan, 4, Len(nan)))
    IN  IF isNumber THEN Dec(sign, StrInt(intpart \o fracpart), expVal - Len(fracpart))
        ELSE IF isInf THEN Special(sign, "F", 0)
        ELSE IF isNaN THEN Special(sign, IF signal THEN "N" ELSE "n",
                                   StrInt(SubSeq(nan, 4, Len(nan))))
        ELSE Raised("InvalidOperation")

\* the text s with its sign in front
ParseSigned(s) ==
    ParseUnsigned(IF HasSign(s) /\ s[1] = "-" THEN 1 ELSE 0,
                  IF HasSign(s) THEN Tail(s) ELSE s,
                  Lower(IF HasSign(s) THEN Tail(s) ELSE s))

DecParse(text) == ParseSigned(Remove(Strip(text), "_"))

\* Decimal.quantize(Decimal("1." + "0" * ndigits), rounding=ROUND_HALF_UP)
Quantize(d, ndigits) ==
    LET exp == -ndigits
        drop == exp - d.exp
        kept == d.coef \div Pow10(drop)
        first == (d.coef \div Pow10(drop - 1)) % 10
        coeff == IF drop <= 0 THEN d.coef * Pow10(-drop)
                 ELSE IF drop > NumDigits(d.coef) THEN 0
                 ELSE IF first >= 5 THEN kept + 1
                 ELSE kept
    IN  IF IsExc(d) THEN d
        ELSE IF d.special = "n" THEN d
        ELSE IF d.special \in {"N", "F"} THEN Raised("InvalidOperation")
        ELSE IF d.coef = 0 THEN Dec(d.sign, 0, exp)
        ELSE IF Adjusted(d) - exp + 1 > Prec THEN Raised("InvalidOperation")
        ELSE IF NumDigits(coeff) > Prec THEN Raised("InvalidOperation")
        ELSE Dec(d.sign, coeff, exp)

\* as_money with the context's default rounding (ROUND_HALF_EVEN) in place of
\* ROUND_HALF_UP
as_money_half_even(value) ==
    LET r == Quantize(value, 2)
        drop == -2 - value.exp
        rest == value.coef % Pow10(drop)
    IN  IF IsFinite(value) /\ IsFinite(r) /\ drop > 0 /\ drop <= NumDigits(value.coef)
           /\ 2 * rest = Pow10(drop) /\ r.coef % 2 = 1
        THEN Dec(r.sign, r.coef - 1, r.exp)
        ELSE r

as_money(value) == Quantize(value, 2)

(***************************************************************************)
(* Decimal arithmetic under the context of models.py (prec = 28, the       *)
(* default traps).  The operands of the model have far fewer than 28       *)
(* digits, so Fix leaves every product and sum exact.                      *)
(***************************************************************************)
XorSign(a, b) == IF a = b THEN 0 ELSE 1

\* Decimal.__mul__
Mul(a, b) ==
    IF IsExc(a) THEN a
    ELSE IF IsExc(b) THEN b
    ELSE IF a.special = "N" \/ b.special = "N" THEN Raised("InvalidOperation")
    ELSE IF a.special = "n" THEN a
    ELSE IF b.special = "n" THEN b
    ELSE IF a.special = "F" THEN
        IF IsZero(b) THEN Raised("InvalidOperation")
        ELSE Special(XorSign(a.sign, b.sign), "F", 0)
    ELSE IF b.special = "F" THEN
        IF IsZero(a) THEN Raised("InvalidOperation")
        ELSE Special(XorSign(a.sign, b.sign), "F", 0)
    ELSE Fix(Dec(XorSign(a.sign, b.sign), a.coef * b.coef, a.exp + b.exp))

\* Decimal.__truediv__ by Decimal("100"): the quotient is exact, and its
\* exponent is brought as close to the dividend's as the coefficient allows
DivHundred(a) ==
    IF IsExc(a) THEN a
    ELSE IF a.special = "N" THEN Raised("InvalidOperation")
    ELSE IF a.special \in {"n", "F"} THEN a
    ELSE IF a.coef = 0 THEN Dec(a.sign, 0, a.exp)
    ELSE IF a.coef % 100 = 0 THEN Fix(Dec(a.sign, a.coef \div 100, a.exp))
    ELSE IF a.coef % 10 = 0 THEN Fix(Dec(a.sign, a.coef \div 10, a.exp - 1))
    ELSE Fix(Dec(a.sign, a.coef, a.exp - 2))

\* Decimal.__add__
Add(a, b) ==
    IF IsExc(a) THEN a
    ELSE IF IsExc(b) THEN b
    ELSE IF a.special = "N" \/ b.special = "N" THEN Raised("InvalidOperation")
    ELSE IF a.special = "n" THEN a
    ELSE IF b.special = "n" THEN b
    ELSE IF a.special = "F" THEN
        IF b.special = "F" /\ a.sign # b.sign THEN Raised("InvalidOperation") ELSE a
    ELSE IF b.special = "F" THEN b
    ELSE LET exp == Min(a.exp, b.exp)
             va == (IF a.sign = 1 THEN -1 ELSE 1) * a.coef * Pow10(a.exp - exp)
             vb == (IF b.sign = 1 THEN -1 ELSE 1) * b.coef * Pow10(b.exp - exp)
         IN  IF a.coef = 0 /\ b.coef = 0 THEN Dec(Min(a.sign, b.sign), 0, exp)
             ELSE IF a.coef = 0 THEN Fix(Dec(b.sign, Abs(vb), exp))
             ELSE IF b.coef = 0 THEN Fix(Dec(a.sign, Abs(va), exp))
             ELSE Fix(Dec(IF va + vb < 0 THEN 1 ELSE 0, Abs(va + vb), exp))

\* sum(values, Decimal("0")): start + values[1] + values[2] + ...
RECURSIVE SumFrom(_, _)
SumFrom(start, values) ==
    IF values = <<>> THEN start
    ELSE SumFrom(Add(start, Head(values)), Tail(values))

(***************************************************************************)
(* models.py: Item and Invoice.  An Item is the record of its four fields, *)
(* an Invoice the record of its nine.                                      *)
(***************************************************************************)
Item_subtotal(self) == as_money(Mul(self.quantity, self.unit_price))

\* Item.tax_amount taking the tax on the unrounded product
Item_tax_amount_unrounded(self) ==
    as_money(Mul(Mul(self.quantity, self.unit_price), DivHundred(self.tax_rate)))

Item_tax_amount(self) ==
    as_money(Mul(Item_subtotal(self), DivHundred(self.tax_rate)))

Item_total(self) == as_money(Add(Item_subtotal(self), Item_tax_amount(self)))

\* Invoice.subtotal rounding the sum of the unrounded products once
Invoice_subtotal_round_once(self) ==
    as_money(SumFrom(Dec(0, 0, 0),
                     [i \in 1..Len(self.items) |->
                         Mul(self.items[i].quantity, self.items[i].unit_price)]))

Invoice_subtotal(self) ==
    as_money(SumFrom(Dec(0, 0, 0),
                     [i \in 1..Len(self.items) |-> Item_subtotal(self.items[i])]))

\* Invoice.tax_total rounding the sum of the unrounded line taxes once
Invoice_tax_total_unrounded_lines(self) ==
    as_money(SumFrom(Dec(0, 0, 0),
                     [i \in 1..Len(self.items) |->
                         Mul(Item_subtotal(self.items[i]),
                             DivHundred(self.items[i].tax_rate))]))

Invoice_tax_total(self) ==
    as_money(SumFrom(Dec(0, 0, 0),
                     [i \in 1..Len(self.items) |-> Item_tax_amount(self.items[i])]))

\* Invoice.grand_total adding the tax of the first line only
Invoice_grand_total_first_tax(self) ==
    as_money(Add(Invoice_subtotal(self),
                 IF self.items = <<>> THEN Dec(0, 0, -2)
                 ELSE Item_tax_amount(self.items[1])))

Invoice_grand_total(self) ==
    as_money(Add(Invoice_subtotal(self), Invoice_tax_total(self)))

(***************************************************************************)
(* Python values whose type the code tests or converts: each carries its   *)
(* type.  A str is the sequence of its characters, a dict the record of    *)
(* its keys, a list the sequence of its elements.                          *)
(***************************************************************************)
None == [t |-> "NoneType"]

PyStr(chars) == [t |-> "str", v |-> chars]

PyInt(n) == [t |-> "int", n |-> n]

PyBool(b) == [t |-> "bool", b |-> b]

PyDict(entries) == [t |-> "dict", v |-> entries]

PyList(elements) == [t |-> "list", v |-> elements]

\* dict.get(key, default)
Get(entries, key, default) == IF key \in DOMAIN entries THEN entries[key] ELSE default

\* bool(value)
Truthy(value) ==
    CASE value.t = "NoneType" -> FALSE
      [] value.t = "str" -> value.v # <<>>
      [] value.t = "int" -> value.n # 0
      [] value.t = "bool" -> value.b
      [] value.t = "list" -> value.v # <<>>
      [] value.t = "dict" -> DOMAIN value.v # {}
      [] OTHER -> TRUE

\* str(value)
ToStr(value) ==
    CASE value.t = "str" -> value.v
      [] value.t = "NoneType" -> <<"N", "o", "n", "e">>
      [] value.t = "bool" ->
            IF value.b THEN <<"T", "r", "u", "e">> ELSE <<"F", "a", "l", "s", "e">>
      [] value.t = "int" ->
            (IF value.n < 0 THEN <<"-">> ELSE <<>>) \o IntStr(Abs(value.n))
      [] value.t = "list" /\ value.v = <<>> -> <<"[", "]">>
      [] value.t = "dict" /\ DOMAIN value.v = {} -> <<"{", "}">>

(***************************************************************************)
(* datetime.date                                                           *)
(***************************************************************************)
Date(y, m, d) == [year |-> y, month |-> m, day |-> d]

IsLeap(y) == y % 4 = 0 /\ (y % 100 # 0 \/ y % 400 = 0)

DaysInMonth(y, m) ==
    IF m = 2 THEN (IF IsLeap(y) THEN 29 ELSE 28)
    ELSE IF m \in {4, 6, 9, 11} THEN 30 ELSE 31

\* date.isoformat() without the zero padding of its fields
Date_isoformat_unpadded(self) ==
    IntStr(self.year) \o <<"-">> \o IntStr(self.month) \o <<"-">> \o IntStr(self.day)

\* date.isoformat(): YYYY-MM-DD
Date_isoformat(self) ==
    ZeroPad(self.year, 4) \o <<"-">> \o ZeroPad(self.month, 2) \o <<"-">>
        \o ZeroPad(self.day, 2)

\* date.fromisoformat(value), on the YYYY-MM-DD form every Python version reads
Date_fromisoformat(value) ==
    IF value.t # "str" THEN Raised("TypeError")
    ELSE LET s == value.v
             shaped == /\ Len(s) = 10
                       /\ s[5] = "-"
                       /\ s[8] = "-"
                       /\ AllDigits(SubSeq(s, 1, 4))
                       /\ AllDigits(SubSeq(s, 6, 7))
                       /\ AllDigits(SubSeq(s, 9, 10))
             y == StrInt(SubSeq(s, 1, 4))
             m == StrInt(SubSeq(s, 6, 7))
             d == StrInt(SubSeq(s, 9, 10))
         IN  IF /\ shaped
                /\ y >= 1
                /\ m \in 1..12
                /\ d \in 1..DaysInMonth(y, m)
             THEN Date(y, m, d)
             ELSE Raised("ValueError")

(***************************************************************************)
(* models.py: the dataclasses, Invoice.to_dict and Invoice.from_dict       *)
(***************************************************************************)
Company(name, address, gst_number, email, phone) ==
    [name |-> name, address |-> address, gst_number |-> gst_number,
     email |-> email, phone |-> phone]

Customer(name, address, email, phone) ==
    [name |-> name, address |-> address, email |-> email, phone |-> phone]

Item(description, quantity, unit_price, tax_rate) ==
    [description |-> description, quantity |-> quantity,
     unit_price |-> unit_price, tax_rate |-> tax_rate]

Invoice(company, customer, items, invoice_number, invoice_date, due_date, currency, notes, authorized_by) ==
    [company |-> company, customer |-> customer, items |-> items,
     invoice_number |-> invoice_number, invoice_date |-> invoice_date,
     due_date |-> due_date, currency |-> currency, notes |-> notes,
     authorized_by |-> authorized_by]

EmptyStr == PyStr(<<>>)

EUR == PyStr(<<"E", "U", "R">>)

\* the dict of one Item with a whole quantity written as a JSON number
ItemToDict_whole_as_number(it) ==
    PyDict([description |-> it.description,
            quantity |-> IF IsFinite(it.quantity) /\ it.quantity.exp = 0
                         THEN PyInt(it.quantity.coef)
                         ELSE PyStr(DecStr(it.quantity)),
            unit_price |-> PyStr(DecStr(it.unit_price)),
            tax_rate |-> PyStr(DecStr(it.tax_rate))])

\* the dict of one Item in Invoice.to_dict
ItemToDict(it) ==
    PyDict([description |-> it.description,
            quantity |-> PyStr(DecStr(it.quantity)),
            unit_price |-> PyStr(DecStr(it.unit_price)),
            tax_rate |-> PyStr(DecStr(it.tax_rate))])

Invoice_to_dict(self) ==
    PyDict([company |-> PyDict(self.company),
            customer |-> PyDict(self.customer),
            items |-> PyList([i \in 1..Len(self.items) |-> ItemToDict(self.items[i])]),
            invoice_number |-> self.invoice_number,
            invoice_date |-> PyStr(Date_isoformat(self.invoice_date)),
            due_date |-> IF self.due_date # None
                         THEN PyStr(Date_isoformat(self.due_date))
                         ELSE None,
            currency |-> self.currency,
            notes |-> self.notes,
            authorized_by |-> self.authorized_by])

\* the first exception among the values, in the order of evaluation
RECURSIVE FirstExc(_)
FirstExc(values) ==
    IF values = <<>> THEN None
    ELSE IF IsExc(Head(values)) THEN Head(values)
    ELSE FirstExc(Tail(values))

\* Company(**data["company"]): a reader that requires the company object
CompanyFromDict_required(data) ==
    IF "company" \notin DOMAIN data THEN Raised("KeyError")
    ELSE IF data.company.t # "dict" THEN Raised("TypeError")
    ELSE IF /\ {"name", "address"} \subseteq DOMAIN data.company.v
            /\ DOMAIN data.company.v \subseteq {"name", "address", "gst_number", "email", "phone"}
    THEN Company(data.company.v.name, data.company.v.address,
                 Get(data.company.v, "gst_number", EmptyStr),
                 Get(data.company.v, "email", EmptyStr),
                 Get(data.company.v, "phone", EmptyStr))
    ELSE Raised("TypeError")

\* Company(**data["company"]) if isinstance(data.get("company"), dict) else
\* Company(name=data.get("company", {}).get("name", ""), ...)
CompanyFromDict(data) ==
    LET c == Get(data, "company", None)
    IN  IF c.t = "dict" THEN
            IF /\ {"name", "address"} \subseteq DOMAIN c.v
               /\ DOMAIN c.v \subseteq {"name", "address", "gst_number", "email", "phone"}
            THEN Company(c.v.name, c.v.address, Get(c.v, "gst_number", EmptyStr),
                         Get(c.v, "email", EmptyStr), Get(c.v, "phone", EmptyStr))
            ELSE Raised("TypeError")
        ELSE IF "company" \in DOMAIN data THEN Raised("AttributeError")
        ELSE Company(EmptyStr, EmptyStr, EmptyStr, EmptyStr, EmptyStr)

CustomerFromDict(data) ==
    LET c == Get(data, "customer", None)
    IN  IF c.t = "dict" THEN
            IF /\ {"name", "address"} \subseteq DOMAIN c.v
               /\ DOMAIN c.v \subseteq {"name", "address", "email", "phone"}
            THEN Customer(c.v.name, c.v.address, Get(c.v, "email", EmptyStr),
                          Get(c.v, "phone", EmptyStr))
            ELSE Raised("TypeError")
        ELSE IF "customer" \in DOMAIN data THEN Raised("AttributeError")
        ELSE Customer(EmptyStr, EmptyStr, EmptyStr, EmptyStr)

\* Item(...) once its arguments are evaluated: the first exception raised, if any
ItemOf(description, quantity, unit_price, tax_rate) ==
    IF FirstExc(<<quantity, unit_price, tax_rate>>) # None
    THEN FirstExc(<<quantity, unit_price, tax_rate>>)
    ELSE Item(description, quantity, unit_price, tax_rate)

\* Item(description=i.get("description", ""), quantity=Decimal(str(i.get("quantity", "0"))), ...)
ItemFromDict(i) ==
    IF i.t # "dict" THEN Raised("AttributeError")
    ELSE ItemOf(Get(i.v, "description", EmptyStr),
                DecParse(ToStr(Get(i.v, "quantity", PyStr(<<"0">>)))),
                DecParse(ToStr(Get(i.v, "unit_price", PyStr(<<"0">>)))),
                DecParse(ToStr(Get(i.v, "tax_rate", PyStr(<<"0">>)))))

\* the list of the comprehension, or the exception its first failing element raised
ListOf(items) == IF FirstExc(items) # None THEN FirstExc(items) ELSE PyList(items)

\* [Item(...) for i in data.get("items", [])]
ItemsFromDict(data) ==
    LET l == Get(data, "items", PyList(<<>>))
    IN  IF l.t # "list" THEN
            (IF l.t \in {"str", "dict"} /\ ~Truthy(l) THEN PyList(<<>>)
             ELSE IF l.t \in {"str", "dict"} THEN Raised("AttributeError")
             ELSE Raised("TypeError"))
        ELSE ListOf([k \in 1..Len(l.v) |-> ItemFromDict(l.v[k])])

\* cls(...) once its arguments are evaluated, in the order they are written
InvoiceOf(company, customer, items, invoice_number, invoice_date, due_date, currency, notes, authorized_by) ==
    IF FirstExc(<<company, customer, items, invoice_date, due_date>>) # None
    THEN FirstExc(<<company, customer, items, invoice_date, due_date>>)
    ELSE Invoice(company, customer, items.v, invoice_number, invoice_date, due_date,
                 currency, notes, authorized_by)

\* Invoice.from_dict(data); today is date.today() as the call reads it
Invoice_from_dict(data, today) ==
    IF data.t # "dict" THEN Raised("AttributeError")
    ELSE InvoiceOf(CompanyFromDict(data.v), CustomerFromDict(data.v), ItemsFromDict(data.v),
                   Get(data.v, "invoice_number", EmptyStr),
                   Date_fromisoformat(Get(data.v, "invoice_date",
                                          PyStr(Date_isoformat(today)))),
                   IF Truthy(Get(data.v, "due_date", None))
                   THEN Date_fromisoformat(data.v.due_date)
                   ELSE None,
                   Get(data.v, "currency", EUR), Get(data.v, "notes", EmptyStr),
                   Get(data.v, "authorized_by", EmptyStr))

(***************************************************************************)
(* json: dumps(data, indent=2, ensure_ascii=False) and loads, character by *)
(* character.  A dict's keys are written in insertion order, which for the *)
(* documents of to_dict is the order of the dataclass fields.  Outside the *)
(* model: floats, \u escapes and control characters other than \n \r \t \f.*)
(***************************************************************************)
KeyOrder ==
    <<"company", "customer", "items", "invoice_number", "invoice_date",
      "due_date", "currency", "notes", "authorized_by", "name",
      "address", "gst_number", "email", "phone", "description",
      "quantity", "unit_price", "tax_rate", "extra">>

\* the characters of each key the documents use
KeyChars ==
    [company |-> <<"c", "o", "m", "p", "a", "n", "y">>,
     customer |-> <<"c", "u", "s", "t", "o", "m", "e", "r">>,
     items |-> <<"i", "t", "e", "m", "s">>,
     invoice_number |-> <<"i", "n", "v", "o", "i", "c", "e", "_", "n", "u", "m", "b", "e", "r">>,
     invoice_date |-> <<"i", "n", "v", "o", "i", "c", "e", "_", "d", "a", "t", "e">>,
     due_date |-> <<"d", "u", "e", "_", "d", "a", "t", "e">>,
     currency |-> <<"c", "u", "r", "r", "e", "n", "c", "y">>,
     notes |-> <<"n", "o", "t", "e", "s">>,
     authorized_by |-> <<"a", "u", "t", "h", "o", "r", "i", "z", "e", "d", "_", "b", "y">>,
     name |-> <<"n", "a", "m", "e">>,
     address |-> <<"a", "d", "d", "r", "e", "s", "s">>,
     gst_number |-> <<"g", "s", "t", "_", "n", "u", "m", "b", "e", "r">>,
     email |-> <<"e", "m", "a", "i", "l">>,
     phone |-> <<"p", "h", "o", "n", "e">>,
     description |-> <<"d", "e", "s", "c", "r", "i", "p", "t", "i", "o", "n">>,
     quantity |-> <<"q", "u", "a", "n", "t", "i", "t", "y">>,
     unit_price |-> <<"u", "n", "i", "t", "_", "p", "r", "i", "c", "e">>,
     tax_rate |-> <<"t", "a", "x", "_", "r", "a", "t", "e">>,
     extra |-> <<"e", "x", "t", "r", "a">>]

KeyName(chars) == CHOOSE k \in DOMAIN KeyChars : KeyChars[k] = chars

Quote == "\""

Backslash == "\\"

Newline == "\n"

EmptyDict == [k \in {} |-> None]

\* py_encode_basestring: one character of a str inside a JSON string
JsonEscape(c) ==
    CASE c = Quote -> <<Backslash, Quote>>
      [] c = Backslash -> <<Backslash, Backslash>>
      [] c = "\n" -> <<Backslash, "n">>
      [] c = "\r" -> <<Backslash, "r">>
      [] c = "\t" -> <<Backslash, "t">>
      [] c = "\f" -> <<Backslash, "f">>
      [] OTHER -> <<c>>

RECURSIVE JsonEscapeAll(_)
JsonEscapeAll(chars) ==
    IF chars = <<>> THEN <<>>
    ELSE JsonEscape(Head(chars)) \o JsonEscapeAll(Tail(chars))

JsonString(chars) == <<Quote>> \o JsonEscapeAll(chars) \o <<Quote>>

\* separator.join(chunks)
RECURSIVE Join(_, _)
Join(chunks, separator) ==
    IF chunks = <<>> THEN <<>>
    ELSE IF Len(chunks) = 1 THEN chunks[1]
    ELSE chunks[1] \o separator \o Join(Tail(chunks), separator)

Indent(level) == [i \in 1..(2 * level) |-> " "]

\* JSONEncoder(indent=2).iterencode: the text of a value nested level deep
RECURSIVE JsonEncode(_, _)
JsonEncode(value, level) ==
    LET inner == <<Newline>> \o Indent(level + 1)
        outer == <<Newline>> \o Indent(level)
        keys == SelectSeq(KeyOrder, LAMBDA k : k \in DOMAIN value.v)
    IN  CASE value.t = "NoneType" -> <<"n", "u", "l", "l">>
          [] value.t = "bool" ->
                IF value.b THEN <<"t", "r", "u", "e">> ELSE <<"f", "a", "l", "s", "e">>
          [] value.t = "int" -> ToStr(value)
          [] value.t = "str" -> JsonString(value.v)
          [] value.t = "list" ->
                IF value.v = <<>> THEN <<"[", "]">>
                ELSE <<"[">> \o inner
                     \o Join([i \in 1..Len(value.v) |-> JsonEncode(value.v[i], level + 1)],
                             <<",">> \o inner)
                     \o outer \o <<"]">>
          [] value.t = "dict" ->
                IF DOMAIN value.v = {} THEN <<"{", "}">>
                ELSE <<"{">> \o inner
                     \o Join([i \in 1..Len(keys) |->
                                 JsonString(KeyChars[keys[i]]) \o <<":", " ">>
                                     \o JsonEncode(value.v[keys[i]], level + 1)],
                             <<",">> \o inner)
                     \o outer \o <<"}">>

json_dumps(data) == JsonEncode(data, 0)

\* the character at index i, "" past the end
At(s, i) == IF i \in 1..Len(s) THEN s[i] ELSE ""

RECURSIVE SkipWhitespace(_, _)
SkipWhitespace(s, i) ==
    IF At(s, i) \in {" ", "\t", "\n", "\r"} THEN SkipWhitespace(s, i + 1) ELSE i

Scanned(value, end) == [val |-> value, pos |-> end]

JSONDecodeError == Raised("JSONDecodeError")

Unescape ==
    [e \in {Quote, Backslash, "/", "n", "r", "t", "f"} |->
        CASE e = "n" -> "\n"
          [] e = "r" -> "\r"
          [] e = "t" -> "\t"
          [] e = "f" -> "\f"
          [] OTHER -> e]

\* py_scanstring(s, j): the str whose opening quote is at j - 1
RECURSIVE ScanString(_, _, _)
ScanString(s, j, chars) ==
    LET c == At(s, j)
    IN  IF c = "" THEN JSONDecodeError
        ELSE IF c = Quote THEN Scanned(PyStr(chars), j + 1)
        ELSE IF c = Backslash THEN
            (IF At(s, j + 1) \in DOMAIN Unescape
             THEN ScanString(s, j + 2, Append(chars, Unescape[At(s, j + 1)]))
             ELSE JSONDecodeError)
        ELSE IF c \in {"\n", "\r", "\t", "\f"} THEN JSONDecodeError
        ELSE ScanString(s, j + 1, Append(chars, c))

\* NUMBER_RE on an integer: -?(0|[1-9]\d*)
ScanNumber(s, i) ==
    LET first == IF At(s, i) = "-" THEN i + 1 ELSE i
        n == IF At(s, first) = "0" THEN 1 ELSE DigitRun(s, first)
        digits == SubSeq(s, first, first + n - 1)
    IN  IF n = 0 THEN JSONDecodeError
        ELSE Scanned(PyInt(IF first > i THEN 0 - StrInt(digits) ELSE StrInt(digits)),
                     first + n)

ScanLiteral(s, i, word, value) ==
    IF SubSeq(s, i, Min(Len(s), i + Len(word) - 1)) = word
    THEN Scanned(value, i + Len(word))
    ELSE JSONDecodeError

\* the dict of the scanned (key, value) pairs: a repeated key keeps its last value
PairsDict(pairs) ==
    LET named(i) == KeyName(pairs[i][1])
        last(k) == CHOOSE i \in 1..Len(pairs) :
                       /\ named(i) = k
                       /\ \A j \in (i + 1)..Len(pairs) : named(j) # k
    IN  [k \in {named(i) : i \in 1..Len(pairs)} |-> pairs[last(k)][2]]

\* scan_once, JSONArray and JSONObject
RECURSIVE ScanOnce(_, _)
RECURSIVE ScanArray(_, _, _)
RECURSIVE ScanObject(_, _, _)
ScanOnce(s, i) ==
    LET c == At(s, i)
        j == SkipWhitespace(s, i + 1)
    IN  CASE c = Quote -> ScanString(s, i + 1, <<>>)
          [] c = "{" -> IF At(s, j) = "}" THEN Scanned(PyDict(EmptyDict), j + 1)
                        ELSE ScanObject(s, j, <<>>)
          [] c = "[" -> IF At(s, j) = "]" THEN Scanned(PyList(<<>>), j + 1)
                        ELSE ScanArray(s, j, <<>>)
          [] c = "n" -> ScanLiteral(s, i, <<"n", "u", "l", "l">>, None)
          [] c = "t" -> ScanLiteral(s, i, <<"t", "r", "u", "e">>, PyBool(TRUE))
          [] c = "f" -> ScanLiteral(s, i, <<"f", "a", "l", "s", "e">>, PyBool(FALSE))
          [] c = "-" \/ IsDigit(c) -> ScanNumber(s, i)
          [] OTHER -> JSONDecodeError

\* after an element: "," and the next element, or "]"
AfterElement(s, elements, element, j) ==
    IF At(s, j) = "," THEN
        ScanArray(s, SkipWhitespace(s, j + 1), Append(elements, element.val))
    ELSE IF At(s, j) = "]" THEN Scanned(PyList(Append(elements, element.val)), j + 1)
    ELSE JSONDecodeError

ArrayElement(s, elements, element) ==
    IF IsExc(element) THEN element
    ELSE AfterElement(s, elements, element, SkipWhitespace(s, element.pos))

ScanArray(s, i, elements) == ArrayElement(s, elements, ScanOnce(s, i))

\* after a member: "," and the next member, or "}"
AfterMember(s, pairs, j) ==
    IF At(s, j) = "," THEN ScanObject(s, SkipWhitespace(s, j + 1), pairs)
    ELSE IF At(s, j) = "}" THEN Scanned(PyDict(PairsDict(pairs)), j + 1)
    ELSE JSONDecodeError

MemberValue(s, pairs, key, value) ==
    IF IsExc(value) THEN value
    ELSE AfterMember(s, Append(pairs, <<key.val.v, value.val>>),
                     SkipWhitespace(s, value.pos))

MemberColon(s, pairs, key, colon) ==
    IF At(s, colon) # ":" THEN JSONDecodeError
    ELSE MemberValue(s, pairs, key, ScanOnce(s, SkipWhitespace(s, colon + 1)))

MemberKey(s, pairs, key) ==
    IF IsExc(key) THEN key
    ELSE MemberColon(s, pairs, key, SkipWhitespace(s, key.pos))

ScanObject(s, i, pairs) ==
    IF At(s, i) # Quote THEN JSONDecodeError
    ELSE MemberKey(s, pairs, ScanString(s, i + 1, <<>>))

\* after the value: nothing but whitespace
Decoded(s, scanned) ==
    IF IsExc(scanned) THEN scanned
    ELSE IF SkipWhitespace(s, scanned.pos) <= Len(s) THEN JSONDecodeError
    ELSE scanned.val

\* JSONDecoder.decode
json_loads(s) == Decoded(s, ScanOnce(s, SkipWhitespace(s, 1)))

(***************************************************************************)
(* storage.py.  A path is the text pathlib prints for it; the file system  *)
(* is the set of directories and the text of each file.  Importing the     *)
(* module creates INVOICES_DIR under the working directory.                *)
(***************************************************************************)
Path(chars) == [t |-> "Path", v |-> chars]

\* Path.cwd()
BASE_DIR == Path(<<"/", "a", "p", "p">>)

\* directory / name; an absolute name replaces the directory
PathJoin(directory, name) ==
    IF name # <<>> /\ name[1] = "/" THEN Path(name)
    ELSE Path(directory.v \o <<"/">> \o name)

INVOICES_DIR == PathJoin(BASE_DIR, <<"i", "n", "v", "o", "i", "c", "e", "s">>)

\* Path.parent
Parent(path) ==
    LET slashes == {i \in 1..Len(path.v) : path.v[i] = "/"}
        last == CHOOSE i \in slashes : \A j \in slashes : j <= i
    IN  IF slashes = {} THEN Path(<<".">>)
        ELSE IF last = 1 THEN Path(<<"/">>)
        ELSE Path(SubSeq(path.v, 1, last - 1))

\* Path.parents
RECURSIVE Parents(_)
Parents(path) ==
    IF Parent(path) = path \/ Parent(path).v = <<".">> THEN {}
    ELSE {Parent(path)} \cup Parents(Parent(path))

NoFiles == [p \in {} |-> <<>>]

\* the directories after INVOICES_DIR.mkdir(parents=True, exist_ok=True) at import
ImportedDirs == {INVOICES_DIR.v} \cup {d.v : d \in Parents(INVOICES_DIR)}

\* a datetime.now() reading
DateTime(y, mo, d, h, mi, sec) ==
    [year |-> y, month |-> mo, day |-> d, hour |-> h, minute |-> mi, second |-> sec]

\* datetime.date(), as date.today() reads the same clock
Today(now) == Date(now.year, now.month, now.day)

\* datetime.now().strftime("%Y%m%d-%H%M%S")
iso_stamp(now) ==
    ZeroPad(now.year, 4) \o ZeroPad(now.month, 2) \o ZeroPad(now.day, 2) \o <<"-">>
        \o ZeroPad(now.hour, 2) \o ZeroPad(now.minute, 2) \o ZeroPad(now.second, 2)

\* invoice_number or f"invoice-{iso_stamp()}"
StemOr(invoice_number, now) ==
    IF Truthy(invoice_number) THEN invoice_number.v
    ELSE <<"i", "n", "v", "o", "i", "c", "e", "-">> \o iso_stamp(now)

json_path(invoice_number, now) ==
    PathJoin(INVOICES_DIR, StemOr(invoice_number, now) \o <<".", "j", "s", "o", "n">>)

pdf_path(invoice_number, now) ==
    PathJoin(INVOICES_DIR, StemOr(invoice_number, now) \o <<".", "p", "d", "f">>)

\* value or None
OrNone(value) == IF Truthy(value) THEN value ELSE None

\* Path.mkdir(parents=True, exist_ok=True): the directories afterwards
Mkdir(fs_dirs, fs_files, path) ==
    IF path.v \in DOMAIN fs_files THEN Raised("FileExistsError")
    ELSE IF \E a \in Parents(path) : a.v \in DOMAIN fs_files THEN Raised("NotADirectoryError")
    ELSE [dirs |-> fs_dirs \cup {path.v} \cup {a.v : a \in Parents(path)}]

\* Path.write_text(text): the files afterwards
WriteText(fs_dirs, fs_files, path, text) ==
    IF path.v \in fs_dirs THEN Raised("IsADirectoryError")
    ELSE IF Parent(path).v \notin fs_dirs THEN Raised("FileNotFoundError")
    ELSE [files |-> [p \in DOMAIN fs_files \cup {path.v} |->
                        IF p = path.v THEN text ELSE fs_files[p]]]

\* Path.read_text()
ReadText(fs_dirs, fs_files, path) ==
    IF path.v \in fs_dirs THEN Raised("IsADirectoryError")
    ELSE IF path.v \notin DOMAIN fs_files THEN Raised("FileNotFoundError")
    ELSE PyStr(fs_files[path.v])

\* target = path or json_path(invoice.invoice_number or None)
SaveTarget(inv, path, now) ==
    IF path # None THEN path ELSE json_path(OrNone(inv.invoice_number), now)

\* json.loads(text) on what path.read_text returned
LoadsText(text) == IF IsExc(text) THEN text ELSE json_loads(text.v)

\* data = json.loads(path.read_text(encoding="utf-8"))
ReadJson(fs_dirs, fs_files, path) == LoadsText(ReadText(fs_dirs, fs_files, path))

\* return Invoice.from_dict(data)
FromLoaded(data, today) == IF IsExc(data) THEN data ELSE Invoice_from_dict(data, today)

\* load_invoice_json(path): the Invoice, or the exception raised
load_invoice_json(fs_dirs, fs_files, path, today) ==
    FromLoaded(ReadJson(fs_dirs, fs_files, path), today)

\* the writing of save_invoice_json once target.parent.mkdir has run
SaveWritten(target, made, written) ==
    IF IsExc(made) THEN [ret |-> made]
    ELSE IF IsExc(written) THEN [ret |-> written, dirs |-> made.dirs]
    ELSE [ret |-> target, dirs |-> made.dirs, files |-> written.files]

SaveMade(fs_files, target, made, text) ==
    SaveWritten(target, made,
                IF IsExc(made) THEN made ELSE WriteText(made.dirs, fs_files, target, text))

\* save_invoice_json(invoice, path): what it returns or raises, and the
\* directories and files it leaves where it changed them
save_invoice_json(fs_dirs, fs_files, inv, target) ==
    SaveMade(fs_files, target, Mkdir(fs_dirs, fs_files, Parent(target)),
             json_dumps(Invoice_to_dict(inv)))

(***************************************************************************)
(* utils.py: parse_decimal and format_currency                             *)
(***************************************************************************)
PyBytes(chars) == [t |-> "bytes", v |-> chars]

\* Decimal(default)
DecimalOf(value) ==
    CASE value.t = "str" -> DecParse(value.v)
      [] value.t = "int" -> Dec(IF value.n < 0 THEN 1 ELSE 0, Abs(value.n), 0)
      [] OTHER -> Raised("TypeError")

\* return Decimal(cleaned), or Decimal(default) on InvalidOperation
ParsedOr(parsed, default) == IF IsExc(parsed) THEN DecimalOf(default) ELSE parsed

\* parse_decimal(value, default).  bytes and bytearray have strip, and their
\* replace rejects str arguments with a TypeError the handler lets through;
\* any other value that is not a str has no strip (AttributeError).
parse_decimal(value, default) ==
    CASE value.t = "str" -> ParsedOr(DecParse(Replace(Strip(value.v), ",", ".")), default)
      [] value.t = "bytes" -> Raised("TypeError")
      [] OTHER -> DecimalOf(default)

\* n / 10^k rounded to the nearest integer, a tie going to the even one
\* (ROUND_HALF_EVEN, the rounding of the default context)
RoundHalfEven(n, k) ==
    LET q == n \div Pow10(k)
        rest == n % Pow10(k)
    IN  IF k <= 0 THEN n * Pow10(0 - k)
        ELSE IF k > NumDigits(n) THEN 0
        ELSE IF 2 * rest > Pow10(k) \/ (2 * rest = Pow10(k) /\ q % 2 = 1) THEN q + 1
        ELSE q

\* the integer digits with a "," before each group of three
RECURSIVE GroupThousands(_)
GroupThousands(digits) ==
    IF Len(digits) <= 3 THEN digits
    ELSE GroupThousands(SubSeq(digits, 1, Len(digits) - 3)) \o <<",">>
             \o SubSeq(digits, Len(digits) - 2, Len(digits))

\* the digits of the amount in hundredths: at least one before the point
FixedDigits(digits) ==
    GroupThousands(SubSeq(digits, 1, Len(digits) - 2)) \o <<".">>
        \o SubSeq(digits, Len(digits) - 1, Len(digits))

\* format(amount, ",.2f"), Decimal.__format__
FormatGrouped2(amount) ==
    (IF amount.sign = 1 THEN <<"-">> ELSE <<>>)
    \o CASE amount.special = "F" -> <<"I", "n", "f", "i", "n", "i", "t", "y">>
         [] amount.special = "n" ->
               <<"N", "a", "N">> \o (IF amount.coef = 0 THEN <<>> ELSE IntStr(amount.coef))
         [] amount.special = "N" ->
               <<"s", "N", "a", "N">> \o (IF amount.coef = 0 THEN <<>> ELSE IntStr(amount.coef))
         [] OTHER -> FixedDigits(ZeroPad(RoundHalfEven(amount.coef, -2 - amount.exp), 3))

\* f"{amount:,.2f} {currency}".replace(",", "_").replace(".", ",").replace("_", ".")
format_currency(amount, currency) ==
    Replace(Replace(Replace(FormatGrouped2(amount) \o <<" ">> \o currency.v, ",", "_"),
                    ".", ","),
            "_", ".")

(***************************************************************************)
(* as_money called on its own: SpecMoney draws the argument and applies    *)
(* the function once.                                                      *)
(***************************************************************************)
MaxScale == 4

MoneyCoefs == {0, 1, 4, 5, 6, 15, 25, 45, 49, 50, 51, 95, 99, 995, 1005, 12345}

MoneyInputs ==
    {Dec(s, c, e) : s \in {0, 1}, c \in MoneyCoefs, e \in (0 - MaxScale)..1}
    \cup {Dec(s, 1, e) : s \in {0, 1}, e \in {-7, 26, 27}}
    \cup {Dec(s, 999, e) : s \in {0, 1}, e \in {-7, 24, 26}}
    \cup {Special(s, m, 0) : s \in {0, 1}, m \in {"F", "n", "N"}}

MoneyInit ==
    /\ arg \in MoneyInputs
    /\ ret = None
    /\ pc = "as_money"
    /\ invoice = None
    /\ document = None
    /\ loaded = None
    /\ files = NoFiles
    /\ dirs = ImportedDirs
    /\ NoFrontEnd

CallAsMoney ==
    /\ pc = "as_money"
    /\ ret' = as_money(arg)
    /\ pc' = "returned"
    /\ UNCHANGED front
    /\ UNCHANGED <<invoice, document, loaded, files, dirs, arg>>

MoneyNext == CallAsMoney

SpecMoney == MoneyInit /\ [][MoneyNext]_vars

(***************************************************************************)
(* Reference arithmetic for the claims: an exact value is a signed integer *)
(* n at a scale k, n / 10^k, and rounding is stated by distance, not by    *)
(* digits.                                                                 *)
(***************************************************************************)
Signed(d) == IF d.sign = 1 THEN 0 - d.coef ELSE d.coef

\* r is a multiple of 0.01 nearest to x, and of two nearest the one farther
\* from zero
NearestCentAwayFromZero(x, r) ==
    /\ IsFinite(r)
    /\ r.exp = -2
    /\ r.sign = x.sign
    /\ IF x.exp >= -2 THEN r.coef = x.coef * Pow10(x.exp + 2)
       ELSE LET unit == Pow10(-2 - x.exp)
                dist == Abs(x.coef - r.coef * unit)
            IN  /\ 2 * dist <= unit
                /\ (2 * dist = unit => r.coef * unit > x.coef)

\* the rounded value of x has at most Prec significant digits
RoundedFitsPrec(x) == x.exp < -2 \/ NumDigits(x.coef) + x.exp + 2 <= Prec

\* C5 as stated: as_money returns, for every finite decimal x of either sign,
\* the multiple of 0.01 nearest to x, a tie going to the multiple farther from
\* zero, with exactly 2 fractional digits.
C5_EveryFiniteRounded ==
    (pc = "returned" /\ IsFinite(arg)) => NearestCentAwayFromZero(arg, ret)

\* C5 amended: as_money returns that multiple for every finite x whose rounded
\* value has at most 28 significant digits (0.005 -> 0.01, -0.005 -> -0.01,
\* 0.025 -> 0.03), and raises InvalidOperation for every other finite x.
C5_RoundedWithinPrec ==
    (pc = "returned" /\ IsFinite(arg)) =>
        /\ (arg.coef = 0 \/ RoundedFitsPrec(arg)) => NearestCentAwayFromZero(arg, ret)
        /\ ~(arg.coef = 0 \/ RoundedFitsPrec(arg)) => ret = Raised("InvalidOperation")
        /\ (arg = Dec(0, 5, -3) => ret = Dec(0, 1, -2))
        /\ (arg = Dec(1, 5, -3) => ret = Dec(1, 1, -2))
        /\ (arg = Dec(0, 25, -3) => ret = Dec(0, 3, -2))

\* C5 witness: the tie -0.005 was rounded away from zero, to -0.01
C5_TieRoundedAway ==
    pc = "returned" /\ arg = Dec(1, 5, -3) /\ ret = Dec(1, 1, -2)

(***************************************************************************)
(* The three methods of an Item called on their own: SpecItem draws the    *)
(* Item and calls one of them.                                             *)
(***************************************************************************)
MaxItemScale == 2

ItemCoefs == {0, 1, 2, 5, 10, 15, 49}

ItemDecimals ==
    {Dec(0, c, e) : c \in ItemCoefs, e \in (0 - MaxItemScale)..0}
    \cup {Dec(1, 15, -1)}

ItemInputs ==
    [description : {"x"}, quantity : ItemDecimals, unit_price : ItemDecimals,
     tax_rate : ItemDecimals]

ItemInit ==
    /\ arg \in ItemInputs
    /\ ret = None
    /\ pc = "item"
    /\ invoice = None
    /\ document = None
    /\ loaded = None
    /\ files = NoFiles
    /\ dirs = ImportedDirs
    /\ NoFrontEnd

CallItemSubtotal ==
    /\ pc = "item"
    /\ ret' = Item_subtotal(arg)
    /\ pc' = "subtotal"
    /\ UNCHANGED front
    /\ UNCHANGED <<invoice, document, loaded, files, dirs, arg>>

CallItemTaxAmount ==
    /\ pc = "item"
    /\ ret' = Item_tax_amount(arg)
    /\ pc' = "tax_amount"
    /\ UNCHANGED front
    /\ UNCHANGED <<invoice, document, loaded, files, dirs, arg>>

CallItemTotal ==
    /\ pc = "item"
    /\ ret' = Item_total(arg)
    /\ pc' = "total"
    /\ UNCHANGED front
    /\ UNCHANGED <<invoice, document, loaded, files, dirs, arg>>

ItemNext == CallItemSubtotal \/ CallItemTaxAmount \/ CallItemTotal

SpecItem == ItemInit /\ [][ItemNext]_vars

\* n / 10^k rounded to the nearest integer, a tie going away from zero
HalfUp(n, k) ==
    IF k <= 0 THEN n * Pow10(0 - k)
    ELSE (IF n < 0 THEN -1 ELSE 1) * ((2 * Abs(n) + Pow10(k)) \div (2 * Pow10(k)))

\* d is the amount of `cents` hundredths, written with 2 fractional digits
IsCents(d, cents) == IsFinite(d) /\ d.exp = -2 /\ Signed(d) = cents

\* the reference amounts of an Item, in hundredths
RefSubtotal(it) ==
    HalfUp(Signed(it.quantity) * Signed(it.unit_price),
           0 - (it.quantity.exp + it.unit_price.exp) - 2)

RefTaxAmount(it) == HalfUp(RefSubtotal(it) * Signed(it.tax_rate), 2 - it.tax_rate.exp)

RefTotal(it) == RefSubtotal(it) + RefTaxAmount(it)

NonNegativeItem(it) ==
    it.quantity.sign = 0 /\ it.unit_price.sign = 0 /\ it.tax_rate.sign = 0

ExampleItem == [description |-> "x", quantity |-> Dec(0, 2, 0),
                unit_price |-> Dec(0, 10, 0), tax_rate |-> Dec(0, 10, 0)]

\* C2: for an Item with non-negative quantity, unit_price and tax_rate,
\* subtotal() is quantity * unit_price rounded half-up to 2 digits, tax_amount()
\* is the rounded subtotal times tax_rate / 100 rounded half-up, and total() is
\* their sum; quantity 2 at unit price 10 and 10% gives 20.00, 2.00 and 22.00.
C2_ItemAmounts ==
    NonNegativeItem(arg) =>
        /\ pc = "subtotal" => IsCents(ret, RefSubtotal(arg))
        /\ pc = "tax_amount" => IsCents(ret, RefTaxAmount(arg))
        /\ pc = "total" => IsCents(ret, RefTotal(arg))
        /\ (arg = ExampleItem /\ pc = "subtotal") => ret = Dec(0, 2000, -2)
        /\ (arg = ExampleItem /\ pc = "tax_amount") => ret = Dec(0, 200, -2)
        /\ (arg = ExampleItem /\ pc = "total") => ret = Dec(0, 2200, -2)

\* C2 witness: 0.49 x 0.5 = 0.245 is rounded to 0.25 before the tax is taken,
\* so 10% of it is 0.03 (on the unrounded product it would be 0.02)
C2_TaxOnRoundedSubtotal ==
    /\ pc = "tax_amount"
    /\ arg.quantity = Dec(0, 49, -2)
    /\ arg.unit_price = Dec(0, 5, -1)
    /\ arg.tax_rate = Dec(0, 10, 0)
    /\ ret = Dec(0, 3, -2)

(***************************************************************************)
(* An Invoice in use: Spec constructs one, then its caller changes the     *)
(* items (the dataclass is mutable: the list, and each Item's fields) and  *)
(* reads the totals.  arg keeps the last change, ret the value last read.  *)
(***************************************************************************)
MaxItems == 2

SessionQuantities == {Dec(0, 1, 0), Dec(0, 2, 0)}

SessionPrices == {Dec(0, 100, 0), Dec(0, 50, 0), Dec(0, 5, -2)}

SessionRates == {Dec(0, 0, 0), Dec(0, 10, 0)}

SessionItems ==
    {Item(PyStr(<<"x">>), q, u, t) : q \in SessionQuantities, u \in SessionPrices,
                          t \in SessionRates}

SessionInvoice(items) ==
    Invoice(Company(PyStr(<<"A", "c", "m", "e">>), PyStr(<<"1", " ", "R", "o", "a", "d">>), EmptyStr, EmptyStr, EmptyStr),
            Customer(PyStr(<<"B", "o", "b">>), PyStr(<<"2", " ", "L", "a", "n", "e">>), EmptyStr, EmptyStr),
            items, PyStr(<<"I", "N", "V", "-", "1">>), Date(2025, 10, 19), None, EUR, EmptyStr, EmptyStr)

\* the lists a caller passes whole: to the constructor, or to replace the items
SessionLists ==
    {<<>>,
     <<Item(PyStr(<<"x">>), Dec(0, 1, 0), Dec(0, 100, 0), Dec(0, 0, 0)),
       Item(PyStr(<<"x">>), Dec(0, 2, 0), Dec(0, 50, 0), Dec(0, 10, 0))>>,
     <<Item(PyStr(<<"x">>), Dec(0, 1, 0), Dec(0, 5, -2), Dec(0, 10, 0))>>}

Init ==
    /\ invoice \in {SessionInvoice(l) : l \in SessionLists}
    /\ arg = [op |-> "construct"]
    /\ ret = None
    /\ pc = "constructed"
    /\ document = None
    /\ loaded = None
    /\ files = NoFiles
    /\ dirs = ImportedDirs
    /\ NoFrontEnd

Mutate(items, op) ==
    /\ invoice' = [invoice EXCEPT !.items = items]
    /\ arg' = [op |-> op]
    /\ ret' = None
    /\ pc' = "mutated"
    /\ UNCHANGED front
    /\ UNCHANGED <<document, loaded, files, dirs>>

\* invoice.items.append(item)
AppendItem ==
    \E it \in SessionItems :
        /\ Len(invoice.items) < MaxItems
        /\ Mutate(Append(invoice.items, it), "append")

\* del invoice.items[i]
RemoveItem ==
    \E i \in 1..Len(invoice.items) :
        Mutate(SubSeq(invoice.items, 1, i - 1)
                   \o SubSeq(invoice.items, i + 1, Len(invoice.items)), "remove")

\* invoice.items[i] = item
ReplaceItem ==
    \E i \in 1..Len(invoice.items), it \in SessionItems :
        Mutate([invoice.items EXCEPT ![i] = it], "replace")

\* invoice.items = items
SetItems ==
    \E l \in SessionLists : Mutate(l, "set_items")

\* invoice.items[i].quantity = q
SetQuantity ==
    \E i \in 1..Len(invoice.items), q \in SessionQuantities :
        Mutate([invoice.items EXCEPT ![i].quantity = q], "set_quantity")

\* invoice.items[i].unit_price = u
SetUnitPrice ==
    \E i \in 1..Len(invoice.items), u \in SessionPrices :
        Mutate([invoice.items EXCEPT ![i].unit_price = u], "set_unit_price")

\* invoice.items[i].tax_rate = t
SetTaxRate ==
    \E i \in 1..Len(invoice.items), t \in SessionRates :
        Mutate([invoice.items EXCEPT ![i].tax_rate = t], "set_tax_rate")

Read(value, name) ==
    /\ ret' = value
    /\ pc' = name
    /\ UNCHANGED front
    /\ UNCHANGED <<invoice, document, loaded, files, dirs, arg>>

ReadSubtotal == Read(Invoice_subtotal(invoice), "subtotal")

ReadTaxTotal == Read(Invoice_tax_total(invoice), "tax_total")

ReadGrandTotal == Read(Invoice_grand_total(invoice), "grand_total")

Next ==
    \/ AppendItem
    \/ RemoveItem
    \/ ReplaceItem
    \/ SetItems
    \/ SetQuantity
    \/ SetUnitPrice
    \/ SetTaxRate
    \/ ReadSubtotal
    \/ ReadTaxTotal
    \/ ReadGrandTotal

Spec == Init /\ [][Next]_vars

RECURSIVE SumInts(_)
SumInts(ns) == IF ns = <<>> THEN 0 ELSE Head(ns) + SumInts(Tail(ns))

RefSubtotals(items) == SumInts([i \in 1..Len(items) |-> RefSubtotal(items[i])])

RefTaxAmounts(items) == SumInts([i \in 1..Len(items) |-> RefTaxAmount(items[i])])

RefTotals(items) == SumInts([i \in 1..Len(items) |-> RefTotal(items[i])])

TestItems == <<Item(PyStr(<<"x">>), Dec(0, 1, 0), Dec(0, 100, 0), Dec(0, 0, 0)),
               Item(PyStr(<<"x">>), Dec(0, 2, 0), Dec(0, 50, 0), Dec(0, 10, 0))>>

\* C3: for every Invoice, the empty one included, subtotal() is the sum of the
\* items' subtotals, tax_total() the sum of the items' own rounded taxes, and
\* grand_total() their sum, each with 2 fractional digits; (1 x 100 at 0%) and
\* (2 x 50 at 10%) give 200.00, 10.00 and 210.00.
C3_InvoiceTotals ==
    /\ pc = "subtotal" => IsCents(ret, RefSubtotals(invoice.items))
    /\ pc = "tax_total" => IsCents(ret, RefTaxAmounts(invoice.items))
    /\ pc = "grand_total" => IsCents(ret, RefTotals(invoice.items))
    /\ (invoice.items = TestItems /\ pc = "subtotal") => ret = Dec(0, 20000, -2)
    /\ (invoice.items = TestItems /\ pc = "tax_total") => ret = Dec(0, 1000, -2)
    /\ (invoice.items = TestItems /\ pc = "grand_total") => ret = Dec(0, 21000, -2)
    /\ (invoice.items = <<>> /\ pc \in {"subtotal", "tax_total", "grand_total"})
           => ret = Dec(0, 0, -2)

\* C3 witness: two lines of 0.05 at 10% each carry 0.01 of tax (0.005 rounded
\* up), so tax_total() is 0.02, where 10% of the aggregate 0.10 would be 0.01
C3_PerLineRoundedTax ==
    /\ pc = "tax_total"
    /\ Len(invoice.items) = 2
    /\ \A i \in 1..2 : invoice.items[i] = Item(PyStr(<<"x">>), Dec(0, 1, 0), Dec(0, 5, -2), Dec(0, 10, 0))
    /\ ret = Dec(0, 2, -2)

Cents(d) == Signed(d)

\* C4: totals are never stale.  After any sequence of changes to the items,
\* each read returns the total of the items as they are when it is made, and
\* in every state grand_total() is subtotal() + tax_total() rounded to 2 digits.
C4_NeverStale ==
    /\ (arg.op # "construct" /\ pc = "subtotal")
           => Cents(ret) = RefSubtotals(invoice.items)
    /\ (arg.op # "construct" /\ pc = "tax_total")
           => Cents(ret) = RefTaxAmounts(invoice.items)
    /\ (arg.op # "construct" /\ pc = "grand_total")
           => Cents(ret) = RefTotals(invoice.items)
    /\ IsCents(Invoice_grand_total(invoice),
               HalfUp(Cents(Invoice_subtotal(invoice))
                          + Cents(Invoice_tax_total(invoice)), 0))

\* C4 witness: after the unit price of a line was changed, grand_total() was
\* read and is the total of the changed line: 2 x 0.05 at 10% = 0.11
C4_ReadAfterChange ==
    /\ pc = "grand_total"
    /\ arg.op = "set_unit_price"
    /\ invoice.items = <<Item(PyStr(<<"x">>), Dec(0, 2, 0), Dec(0, 5, -2), Dec(0, 10, 0))>>
    /\ ret = Dec(0, 11, -2)

(***************************************************************************)
(* Saving and loading: SpecSerial holds one invoice, turns it into its     *)
(* document and back, saves it (to the default path or to a chosen one)    *)
(* and loads the files that exist.                                         *)
(***************************************************************************)
MaxSerialItems == 2

RECURSIVE SeqsOfLen(_, _)
SeqsOfLen(S, n) ==
    IF n = 0 THEN {<<>>}
    ELSE {Append(q, x) : q \in SeqsOfLen(S, n - 1), x \in S}

\* decimal texts 1 / 10.00 / 0, 1E+2 / 1E-7 / -0, NaN / -Infinity / sNaN12
SerialItems ==
    {Item(PyStr(<<"W", "i", "d", "g", "e", "t">>), Dec(0, 1, 0), Dec(0, 1000, -2), Dec(0, 0, 0)),
     Item(EmptyStr, Dec(0, 1, 2), Dec(0, 1, -7), Dec(1, 0, 0)),
     Item(PyStr(<<"a", " ", "\"", "q", "\"">>), Special(0, "n", 0), Special(1, "F", 0), Special(0, "N", 12))}

SerialLists == UNION {SeqsOfLen(SerialItems, n) : n \in 0..MaxSerialItems}

\* numbered, dated today, nothing optional / unnumbered, every field set,
\* notes of two lines / numbered with a slash, year 5, due on a leap day
SerialHeaders ==
    {[company |-> Company(PyStr(<<"A", "c", "m", "e">>), PyStr(<<"1", " ", "R", "o", "a", "d">>), EmptyStr, EmptyStr, EmptyStr),
      customer |-> Customer(PyStr(<<"B", "o", "b">>), PyStr(<<"2", " ", "L", "a", "n", "e">>), EmptyStr, EmptyStr),
      invoice_number |-> PyStr(<<"I", "N", "V", "-", "1">>), invoice_date |-> Date(2025, 10, 19),
      due_date |-> None, currency |-> EUR, notes |-> EmptyStr, authorized_by |-> EmptyStr],
     [company |-> Company(PyStr(<<"A", "c", "m", "e">>), PyStr(<<"1", " ", "R", "o", "a", "d">>), PyStr(<<"G", "B", "1">>), PyStr(<<"a", "@", "b", ".", "c">>), PyStr(<<"+", "1", " ", "2">>)),
      customer |-> Customer(PyStr(<<"B", "o", "b">>), PyStr(<<"2", " ", "L", "a", "n", "e">>), PyStr(<<"a", "@", "b", ".", "c">>), PyStr(<<"+", "1", " ", "2">>)),
      invoice_number |-> EmptyStr, invoice_date |-> Date(2025, 1, 2),
      due_date |-> Date(2025, 12, 31), currency |-> PyStr(<<"R", "s", ".">>),
      notes |-> PyStr(<<"n", "e", "t", " ", "3", "0", "\n", "\"", "t", "h", "a", "n", "k", "s", "\"">>), authorized_by |-> PyStr(<<"B", "o", "b">>)],
     [company |-> Company(EmptyStr, EmptyStr, EmptyStr, EmptyStr, EmptyStr),
      customer |-> Customer(EmptyStr, EmptyStr, EmptyStr, EmptyStr),
      invoice_number |-> PyStr(<<"I", "N", "V", "/", "1">>), invoice_date |-> Date(5, 1, 2),
      due_date |-> Date(2024, 2, 29), currency |-> EmptyStr, notes |-> PyStr(<<"C", ":", "\\", "x">>),
      authorized_by |-> EmptyStr]}

\* every list under the numbered header, the lists of at most one item under the others
SerialInvoices ==
    {Invoice(h.company, h.customer, l, h.invoice_number, h.invoice_date, h.due_date,
             h.currency, h.notes, h.authorized_by) :
         <<h, l>> \in {x \in SerialHeaders \X SerialLists :
                          x[1].due_date = None \/ Len(x[2]) <= 1}}

\* two readings of the clock, one second and one day apart
Clock == {DateTime(2025, 10, 19, 23, 59, 59), DateTime(2025, 10, 20, 0, 0, 0)}

\* the path a caller chooses; its directory does not exist yet
ChosenPath == Path(<<"/", "a", "p", "p", "/", "o", "u", "t", "/", "a", ".", "j", "s", "o", "n">>)

MissingPath == Path(<<"/", "a", "p", "p", "/", "n", "o", "n", "e", ".", "j", "s", "o", "n">>)

SerialInit ==
    /\ invoice \in SerialInvoices
    /\ document = None
    /\ loaded = None
    /\ files = NoFiles
    /\ dirs = ImportedDirs
    /\ NoFrontEnd
    /\ arg = None
    /\ ret = None
    /\ pc = "constructed"

\* document = invoice.to_dict()
ToDict ==
    /\ invoice # None
    /\ document' = Invoice_to_dict(invoice)
    /\ arg' = None
    /\ ret' = document'
    /\ pc' = "to_dict"
    /\ UNCHANGED front
    /\ UNCHANGED <<invoice, loaded, files, dirs>>

\* loaded = Invoice.from_dict(document)
FromDict ==
    /\ document # None
    /\ \E now \in Clock : loaded' = Invoice_from_dict(document, Today(now))
    /\ arg' = document
    /\ ret' = loaded'
    /\ pc' = "from_dict"
    /\ UNCHANGED front
    /\ UNCHANGED <<invoice, document, files, dirs>>

\* save_invoice_json(invoice, path)
SaveInvoiceJson ==
    /\ invoice # None
    /\ \E path \in {None, ChosenPath}, now \in Clock :
        \E saved \in {save_invoice_json(dirs, files, invoice, SaveTarget(invoice, path, now))} :
            /\ arg' = path
            /\ ret' = saved.ret
            /\ dirs' = IF "dirs" \in DOMAIN saved THEN saved.dirs ELSE dirs
            /\ files' = IF "files" \in DOMAIN saved THEN saved.files ELSE files
    /\ pc' = "save_invoice_json"
    /\ UNCHANGED front
    /\ UNCHANGED <<invoice, document, loaded>>

\* loaded = load_invoice_json(path)
LoadInvoiceJson ==
    /\ \E path \in {Path(p) : p \in DOMAIN files} \cup {MissingPath} :
        \E data \in {ReadJson(dirs, files, path)}, now \in Clock :
            /\ loaded' = FromLoaded(data, Today(now))
            /\ arg' = path
    /\ ret' = loaded'
    /\ pc' = "load_invoice_json"
    /\ UNCHANGED front
    /\ UNCHANGED <<invoice, document, files, dirs>>

SerialNext ==
    \/ ToDict
    \/ FromDict
    \/ SaveInvoiceJson
    \/ LoadInvoiceJson

SpecSerial == SerialInit /\ [][SerialNext]_vars

\* the decimal text of every item field, in item order
ItemTexts(inv) ==
    [i \in 1..Len(inv.items) |->
        <<DecStr(inv.items[i].quantity), DecStr(inv.items[i].unit_price),
          DecStr(inv.items[i].tax_rate)>>]

\* inv as read back: every field equal, the items in order, each decimal with its text
SameInvoice(read, inv) ==
    /\ ~IsExc(read)
    /\ read = inv
    /\ \A f \in DOMAIN inv : read[f] = inv[f]
    /\ ItemTexts(read) = ItemTexts(inv)

\* C1: for every Invoice inv, Invoice.from_dict(inv.to_dict()) equals inv field
\* by field (every decimal with its exact text, the dates, the items in their
\* order), and load_invoice_json of the path save_invoice_json(inv) returned
\* equals inv as well.  Every file of SpecSerial was saved from the invoice.
C1_RoundTrip ==
    /\ (pc = "from_dict" /\ document = Invoice_to_dict(invoice)
            => SameInvoice(loaded, invoice))
    /\ (pc = "save_invoice_json" /\ ~IsExc(ret)
            => \A now \in Clock :
                   SameInvoice(load_invoice_json(dirs, files, ret, Today(now)), invoice))
    /\ (pc = "load_invoice_json" /\ arg.v \in DOMAIN files
            => SameInvoice(loaded, invoice))

\* an invoice with the same item twice, its quantity NaN, is saved and loaded back
C1_DuplicateItemsReloaded ==
    /\ pc = "load_invoice_json"
    /\ loaded = invoice
    /\ Len(invoice.items) = 2
    /\ invoice.items[1] = invoice.items[2]
    /\ invoice.items[1].quantity = Special(0, "n", 0)

\* str(Decimal) as Python prints each decimal of SerialItems
PrintedDecimals ==
    {<<Dec(0, 1, 0), <<"1">>>>, <<Dec(0, 1000, -2), <<"1", "0", ".", "0", "0">>>>, <<Dec(0, 0, 0), <<"0">>>>,
     <<Dec(0, 1, 2), <<"1", "E", "+", "2">>>>, <<Dec(0, 1, -7), <<"1", "E", "-", "7">>>>, <<Dec(1, 0, 0), <<"-", "0">>>>,
     <<Special(0, "n", 0), <<"N", "a", "N">>>>, <<Special(1, "F", 0), <<"-", "I", "n", "f", "i", "n", "i", "t", "y">>>>,
     <<Special(0, "N", 12), <<"s", "N", "a", "N", "1", "2">>>>}

IsDecimalText(value, d) == value.t = "str" /\ <<d, value.v>> \in PrintedDecimals

\* value is the str YYYY-MM-DD of the date d
IsIsoDate(value, d) ==
    /\ value.t = "str"
    /\ Len(value.v) = 10
    /\ value.v[5] = "-"
    /\ value.v[8] = "-"
    /\ \A i \in {1, 2, 3, 4, 6, 7, 9, 10} : IsDigit(value.v[i])
    /\ StrInt(SubSeq(value.v, 1, 4)) = d.year
    /\ StrInt(SubSeq(value.v, 6, 7)) = d.month
    /\ StrInt(SubSeq(value.v, 9, 10)) = d.day

\* C9: the document of to_dict has exactly the nine keys; every item's
\* quantity, unit_price and tax_rate is a str holding the exact decimal text,
\* never a number; invoice_date is a YYYY-MM-DD str; due_date is such a str
\* when set and null when absent; the items keep the invoice's order.
C9_DocumentShape ==
    pc = "to_dict" =>
        /\ document.t = "dict"
        /\ DOMAIN document.v = {"company", "customer", "items", "invoice_number",
                                "invoice_date", "due_date", "currency", "notes",
                                "authorized_by"}
        /\ document.v.items.t = "list"
        /\ Len(document.v.items.v) = Len(invoice.items)
        /\ \A i \in 1..Len(invoice.items) :
               /\ document.v.items.v[i].t = "dict"
               /\ document.v.items.v[i].v.description = invoice.items[i].description
               /\ IsDecimalText(document.v.items.v[i].v.quantity, invoice.items[i].quantity)
               /\ IsDecimalText(document.v.items.v[i].v.unit_price,
                                invoice.items[i].unit_price)
               /\ IsDecimalText(document.v.items.v[i].v.tax_rate, invoice.items[i].tax_rate)
        /\ IsIsoDate(document.v.invoice_date, invoice.invoice_date)
        /\ IF invoice.due_date = None THEN document.v.due_date = None
           ELSE IsIsoDate(document.v.due_date, invoice.due_date)

\* the document of an invoice without a due date, of two items in exponent notation
C9_NullDueDateExponentText ==
    /\ pc = "to_dict"
    /\ document.v.due_date = None
    /\ Len(document.v.items.v) = 2
    /\ \A i \in {1, 2} : document.v.items.v[i].v.quantity = PyStr(<<"1", "E", "+", "2">>)

(***************************************************************************)
(* Reading documents the program did not write: SpecDecode starts from a   *)
(* hand-made document, held as a dict and as the text of a file next to    *)
(* two files that are not invoice documents, and decodes it.               *)
(***************************************************************************)
MaxMissing == 2

GoodDocument ==
    PyDict([company |-> PyDict([name |-> PyStr(<<"A", "c", "m", "e">>), address |-> PyStr(<<"1", " ", "R", "o", "a", "d">>), gst_number |-> PyStr(<<"G", "B", "1">>),
                                email |-> PyStr(<<"a", "@", "b", ".", "c">>), phone |-> PyStr(<<"+", "1", " ", "2">>)]),
            customer |-> PyDict([name |-> PyStr(<<"B", "o", "b">>), address |-> PyStr(<<"2", " ", "L", "a", "n", "e">>), email |-> PyStr(<<"a", "@", "b", ".", "c">>),
                                 phone |-> PyStr(<<"+", "1", " ", "2">>)]),
            items |-> PyList(<<PyDict([description |-> PyStr(<<"W", "i", "d", "g", "e", "t">>), quantity |-> PyStr(<<"2">>),
                                       unit_price |-> PyStr(<<"1", "0", ".", "0", "0">>), tax_rate |-> PyStr(<<"2", "0">>)])>>),
            invoice_number |-> PyStr(<<"I", "N", "V", "-", "1">>),
            invoice_date |-> PyStr(<<"2", "0", "2", "5", "-", "1", "0", "-", "1", "9">>),
            due_date |-> PyStr(<<"2", "0", "2", "5", "-", "1", "1", "-", "1", "8">>),
            currency |-> PyStr(<<"U", "S", "D">>),
            notes |-> PyStr(<<"n", "e", "t", " ", "3", "0">>),
            authorized_by |-> PyStr(<<"B", "o", "b">>)])

\* the dict d without the keys
Without(d, keys) == PyDict([k \in DOMAIN d.v \ keys |-> d.v[k]])

\* the dict d with d[key] = value
With(d, key, value) ==
    PyDict([k \in DOMAIN d.v \cup {key} |-> IF k = key THEN value ELSE d.v[k]])

\* the document d with its only item replaced
WithItem(d, item) == With(d, "items", PyList(<<item>>))

SubsetsUpTo(S, n) == {K \in SUBSET S : Cardinality(K) <= n}

\* documents that lack keys and are well formed in the keys they have
PartialDocuments ==
    {Without(GoodDocument, K) : K \in SubsetsUpTo(DOMAIN GoodDocument.v, MaxMissing)}
    \cup {With(GoodDocument, "company", Without(GoodDocument.v.company, K)) :
              K \in SubsetsUpTo({"gst_number", "email", "phone"}, MaxMissing)}
    \cup {With(GoodDocument, "customer", Without(GoodDocument.v.customer, K)) :
              K \in SubsetsUpTo({"email", "phone"}, MaxMissing)}
    \cup {WithItem(GoodDocument, Without(GoodDocument.v.items.v[1], K)) :
              K \in SubsetsUpTo({"description", "quantity", "unit_price", "tax_rate"},
                                MaxMissing)}
    \cup {PyDict(EmptyDict)}

\* strings that are not a calendar date in the form YYYY-MM-DD: empty, a word,
\* month 13, 29 February 2025, day first, no padding, a leading space
MalformedDates ==
    {<<>>, <<"t", "o", "m", "o", "r", "r", "o", "w">>, <<"2", "0", "2", "5", "-", "1", "3", "-", "0", "1">>, <<"2", "0", "2", "5", "-", "0", "2", "-", "2", "9">>, <<"1", "9", "-", "1", "0", "-", "2", "0", "2", "5">>, <<"2", "0", "2", "5", "-", "1", "-", "2">>, <<" ", "2", "0", "2", "5", "-", "1", "0", "-", "1", "9">>}

\* texts that are not a number: empty, a word, a decimal comma, two points,
\* two signs, an exponent without digits, hexadecimal, a space
NonNumericTexts ==
    {<<>>, <<"a", "b", "c">>, <<"1", ",", "5">>, <<"1", ".", "2", ".", "3">>, <<"-", "-", "1">>, <<"1", "e">>, <<"0", "x", "1", "0">>, <<" ">>}

\* texts the decimal library reads as the special values
SpecialTexts == {<<"N", "a", "N">>, <<"I", "n", "f", "i", "n", "i", "t", "y">>}

DateFields == {"invoice_date", "due_date"}

DecimalFields == {"quantity", "unit_price", "tax_rate"}

MalformedDocuments ==
    {With(GoodDocument, f, PyStr(t)) : f \in DateFields, t \in MalformedDates}
    \cup {WithItem(GoodDocument, With(GoodDocument.v.items.v[1], f, PyStr(t))) :
              f \in DecimalFields, t \in NonNumericTexts \cup SpecialTexts}
    \cup {With(Without(GoodDocument, {"company"}), "invoice_date", PyStr(<<"2", "0", "2", "5", "-", "1", "3", "-", "0", "1">>)),
          With(With(GoodDocument, "due_date", PyStr(<<"t", "o", "m", "o", "r", "r", "o", "w">>)), "items", PyList(<<>>))}

DecodeDocuments == {GoodDocument} \cup PartialDocuments \cup MalformedDocuments

\* the file that holds the document, a file cut short and a file holding a list
DocumentPath == PathJoin(INVOICES_DIR, <<"g", "i", "v", "e", "n", ".", "j", "s", "o", "n">>)

TruncatedPath == PathJoin(INVOICES_DIR, <<"c", "u", "t", ".", "j", "s", "o", "n">>)

ListPath == PathJoin(INVOICES_DIR, <<"l", "i", "s", "t", ".", "j", "s", "o", "n">>)

DecodeFiles(data) ==
    [p \in {DocumentPath.v, TruncatedPath.v, ListPath.v} |->
        IF p = DocumentPath.v THEN json_dumps(data)
        ELSE IF p = TruncatedPath.v THEN SubSeq(json_dumps(GoodDocument), 1, 40)
        ELSE <<"[", "]">>]

DecodeInit ==
    /\ invoice = None
    /\ document \in DecodeDocuments
    /\ loaded = None
    /\ files = DecodeFiles(document)
    /\ dirs = ImportedDirs
    /\ NoFrontEnd
    /\ arg = None
    /\ ret = None
    /\ pc = "given"

DecodeNext ==
    \/ FromDict
    \/ LoadInvoiceJson

SpecDecode == DecodeInit /\ [][DecodeNext]_vars

\* the document has just been decoded, from the dict or from its file
Decoded_document ==
    \/ pc = "from_dict"
    \/ pc = "load_invoice_json" /\ arg = DocumentPath

\* the document holds one of the texts in a date field or, with the numbers, in
\* a decimal field of an item
HoldsBadText(dates, numbers) ==
    \/ \E f \in DateFields :
           f \in DOMAIN document.v /\ document.v[f] \in {PyStr(t) : t \in dates}
    \/ /\ "items" \in DOMAIN document.v
       /\ \E i \in 1..Len(document.v.items.v), f \in DecimalFields :
              /\ f \in DOMAIN document.v.items.v[i].v
              /\ document.v.items.v[i].v[f] \in {PyStr(t) : t \in numbers}

\* C7: when a document holds a malformed date string in invoice_date or
\* due_date, or a non-numeric text in an item's quantity, unit_price or
\* tax_rate, Invoice.from_dict and load_invoice_json fail with an error and
\* return no Invoice.
C7_BadFieldFailsLoad ==
    Decoded_document /\ HoldsBadText(MalformedDates, NonNumericTexts) => IsExc(loaded)

\* the same for the malformed date strings that are not empty
C7_NonEmptyBadFieldFailsLoad ==
    Decoded_document /\ HoldsBadText(MalformedDates \ {<<>>}, NonNumericTexts)
        => IsExc(loaded)

\* a document whose due_date is the empty string is loaded, without a due date
C7_EmptyDueDateLoaded ==
    /\ pc = "load_invoice_json"
    /\ arg = DocumentPath
    /\ "due_date" \in DOMAIN document.v
    /\ document.v.due_date = EmptyStr
    /\ ~IsExc(loaded)
    /\ loaded.due_date = None

\* what the well-formed keys of GoodDocument decode to
GoodInvoice ==
    Invoice(Company(PyStr(<<"A", "c", "m", "e">>), PyStr(<<"1", " ", "R", "o", "a", "d">>), PyStr(<<"G", "B", "1">>), PyStr(<<"a", "@", "b", ".", "c">>), PyStr(<<"+", "1", " ", "2">>)),
            Customer(PyStr(<<"B", "o", "b">>), PyStr(<<"2", " ", "L", "a", "n", "e">>), PyStr(<<"a", "@", "b", ".", "c">>), PyStr(<<"+", "1", " ", "2">>)),
            <<Item(PyStr(<<"W", "i", "d", "g", "e", "t">>), Dec(0, 2, 0), Dec(0, 1000, -2), Dec(0, 20, 0))>>,
            PyStr(<<"I", "N", "V", "-", "1">>), Date(2025, 10, 19), Date(2025, 11, 18), PyStr(<<"U", "S", "D">>), PyStr(<<"n", "e", "t", " ", "3", "0">>), PyStr(<<"B", "o", "b">>))

\* the data model's default of each field
Defaults ==
    [company |-> Company(EmptyStr, EmptyStr, EmptyStr, EmptyStr, EmptyStr),
     customer |-> Customer(EmptyStr, EmptyStr, EmptyStr, EmptyStr),
     items |-> <<>>, invoice_number |-> EmptyStr, due_date |-> None, currency |-> EUR,
     notes |-> EmptyStr, authorized_by |-> EmptyStr,
     gst_number |-> EmptyStr, email |-> EmptyStr, phone |-> EmptyStr,
     description |-> EmptyStr, quantity |-> Dec(0, 0, 0), unit_price |-> Dec(0, 0, 0),
     tax_rate |-> Dec(0, 0, 0)]

\* the fields of the object read from the dict d are those of good where d has
\* the key and the defaults where it lacks it
DefaultsFill(read, d, good) ==
    \A f \in DOMAIN good : read[f] = IF f \in DOMAIN d.v THEN good[f] ELSE Defaults[f]

\* C8: a document without its company or customer object decodes, without
\* failing, to a Company/Customer of empty strings, and every missing
\* optional field takes its default: gst_number, email, phone, notes,
\* authorized_by, invoice_number "", tax_rate, quantity, unit_price 0, items
\* empty, currency "EUR", due_date absent, invoice_date today.
C8_MissingFieldsDefault ==
    Decoded_document /\ document \in PartialDocuments =>
        /\ ~IsExc(loaded)
        /\ \A f \in DOMAIN GoodInvoice \ {"company", "customer", "items", "invoice_date"} :
               loaded[f] = IF f \in DOMAIN document.v THEN GoodInvoice[f] ELSE Defaults[f]
        /\ IF "invoice_date" \in DOMAIN document.v
           THEN loaded.invoice_date = GoodInvoice.invoice_date
           ELSE loaded.invoice_date \in {Today(now) : now \in Clock}
        /\ IF "company" \in DOMAIN document.v
           THEN DefaultsFill(loaded.company, document.v.company, GoodInvoice.company)
           ELSE loaded.company = Defaults.company
        /\ IF "customer" \in DOMAIN document.v
           THEN DefaultsFill(loaded.customer, document.v.customer, GoodInvoice.customer)
           ELSE loaded.customer = Defaults.customer
        /\ IF "items" \in DOMAIN document.v
           THEN /\ Len(loaded.items) = 1
                /\ DefaultsFill(loaded.items[1], document.v.items.v[1], GoodInvoice.items[1])
           ELSE loaded.items = <<>>

\* a document of neither company nor customer is read from its file
C8_NoCompanyNoCustomer ==
    /\ pc = "load_invoice_json"
    /\ arg = DocumentPath
    /\ DOMAIN document.v \cap {"company", "customer"} = {}
    /\ "items" \in DOMAIN document.v
    /\ loaded.company = Company(EmptyStr, EmptyStr, EmptyStr, EmptyStr, EmptyStr)
    /\ loaded.customer = Customer(EmptyStr, EmptyStr, EmptyStr, EmptyStr)

(***************************************************************************)
(* parse_decimal called on its own: SpecParse draws the value and the      *)
(* default and applies the function once.                                  *)
(***************************************************************************)
MaxTextLen == 3

ParseAlphabet == {"1", "5", ",", ".", " ", "-"}

\* the texts the documentation names
ExampleTexts == {<<"1", "2", ",", "3", "4">>, <<"o", "o", "p", "s">>, <<"1", ",", "2", "3", "4", ".", "5", "6">>, <<"1", ".", "2", ".", "3">>, <<" ", "1", "2", " ">>}

ParseTexts == UNION {SeqsOfLen(ParseAlphabet, n) : n \in 0..MaxTextLen} \cup ExampleTexts

\* every text, and values that are not a str: None, an int, bytes
ParseValues == {PyStr(t) : t \in ParseTexts} \cup {None, PyInt(5), PyBytes(<<"1", ",", "5">>)}

ParseDefaults == {PyStr(<<"0">>), PyStr(<<"1">>)}

ParseInit ==
    /\ arg \in {[value |-> v, default |-> d] : v \in ParseValues, d \in ParseDefaults}
    /\ ret = None
    /\ pc = "parse_decimal"
    /\ invoice = None
    /\ document = None
    /\ loaded = None
    /\ files = NoFiles
    /\ dirs = ImportedDirs
    /\ NoFrontEnd

CallParseDecimal ==
    /\ pc = "parse_decimal"
    /\ ret' = parse_decimal(arg.value, arg.default)
    /\ pc' = "done"
    /\ UNCHANGED front
    /\ UNCHANGED <<invoice, document, loaded, files, dirs, arg>>

ParseNext == CallParseDecimal

SpecParse == ParseInit /\ [][ParseNext]_vars

\* the text between the first and the last character that is not a space
Trimmed(text) ==
    LET inked == {i \in 1..Len(text) : text[i] # " "}
    IN  IF inked = {} THEN <<>>
        ELSE SubSeq(text, CHOOSE i \in inked : \A j \in inked : i <= j,
                    CHOOSE i \in inked : \A j \in inked : j <= i)

Periods(text) == [i \in 1..Len(text) |-> IF text[i] = "," THEN "." ELSE text[i]]

Unsigned(text) == IF text # <<>> /\ text[1] = "-" THEN Tail(text) ELSE text

\* a decimal in plain notation: digits with at most one period among them
IsPlainDecimal(text) ==
    /\ \A i \in 1..Len(Unsigned(text)) : IsDigit(Unsigned(text)[i]) \/ Unsigned(text)[i] = "."
    /\ Cardinality({i \in 1..Len(Unsigned(text)) : Unsigned(text)[i] = "."}) <= 1
    /\ \E i \in 1..Len(Unsigned(text)) : IsDigit(Unsigned(text)[i])

\* its value: the digits, scaled by the number of digits after the period
PlainValue(text) ==
    LET body == Unsigned(text)
        dots == {i \in 1..Len(body) : body[i] = "."}
    IN  Dec(IF body = text THEN 0 ELSE 1,
            StrInt(SelectSeq(body, IsDigit)),
            IF dots = {} THEN 0 ELSE (CHOOSE i \in dots : TRUE) - Len(body))

\* what the documentation says a call returns
Documented(value, default) ==
    IF value.t = "str" /\ IsPlainDecimal(Periods(Trimmed(value.v)))
    THEN PlainValue(Periods(Trimmed(value.v)))
    ELSE PlainValue(default.v)

\* C6: parse_decimal never fails.  For a string it returns the value of the
\* trimmed text with every comma replaced by a period when that is a valid
\* decimal and the parsed default otherwise; for a value that is not a string
\* it returns the parsed default.  parse_decimal("12,34") is 12.34 and
\* parse_decimal("oops", default="1") is 1.
C6_NeverFails ==
    pc = "done" =>
        /\ ~IsExc(ret)
        /\ ret = Documented(arg.value, arg.default)
        /\ (arg.value = PyStr(<<"1", "2", ",", "3", "4">>) => ret = Dec(0, 1234, -2))
        /\ (arg.value = PyStr(<<"o", "o", "p", "s">>) /\ arg.default = PyStr(<<"1">>) => ret = Dec(0, 1, 0))

\* the same for every value but bytes
C6_NeverFailsButBytes ==
    pc = "done" /\ arg.value.t # "bytes" =>
        /\ ~IsExc(ret)
        /\ ret = Documented(arg.value, arg.default)
        /\ (arg.value = PyStr(<<"1", "2", ",", "3", "4">>) => ret = Dec(0, 1234, -2))
        /\ (arg.value = PyStr(<<"o", "o", "p", "s">>) /\ arg.default = PyStr(<<"1">>) => ret = Dec(0, 1, 0))

\* parse_decimal(b"1,5") raises TypeError
C6_BytesRaise ==
    /\ pc = "done"
    /\ arg.value = PyBytes(<<"1", ",", "5">>)
    /\ ret = Raised("TypeError")

(***************************************************************************)
(* format_currency called on its own: SpecFormat draws the amount and the  *)
(* currency and applies the function once.                                 *)
(***************************************************************************)
MaxFormatScale == 3

FormatCoefs == {0, 5, 15, 25, 125, 995, 1005, 123450, 999995, 12345675}

FormatAmounts ==
    {Dec(s, c, e) : s \in {0, 1}, c \in FormatCoefs, e \in (0 - MaxFormatScale)..0}
    \cup {Special(0, "n", 0), Special(1, "F", 0)}

Currencies == {EUR, PyStr(<<"U", "S", "D">>), PyStr(<<"R", "s", ".">>)}

FormatInit ==
    /\ arg \in {[amount |-> a, currency |-> c] : a \in FormatAmounts, c \in Currencies}
    /\ ret = None
    /\ pc = "format_currency"
    /\ invoice = None
    /\ document = None
    /\ loaded = None
    /\ files = NoFiles
    /\ dirs = ImportedDirs
    /\ NoFrontEnd

CallFormatCurrency ==
    /\ pc = "format_currency"
    /\ ret' = format_currency(arg.amount, arg.currency)
    /\ pc' = "done"
    /\ UNCHANGED front
    /\ UNCHANGED <<invoice, document, loaded, files, dirs, arg>>

FormatNext == CallFormatCurrency

SpecFormat == FormatInit /\ [][FormatNext]_vars

\* n hundredths is a nearest amount of 2 fractional digits to the amount
IsNearestCents(amount, n) ==
    IF amount.exp >= -2 THEN n = amount.coef * Pow10(amount.exp + 2)
    ELSE 2 * Abs(amount.coef - n * Pow10(-2 - amount.exp)) <= Pow10(-2 - amount.exp)

\* the integer k with a period between each group of three digits
RECURSIVE DottedGroups(_)
DottedGroups(k) ==
    IF k < 1000 THEN IntStr(k)
    ELSE DottedGroups(k \div 1000) \o <<".">> \o ZeroPad(k % 1000, 3)

\* n hundredths in the European convention, then a space and the currency code
European(negative, n, code) ==
    (IF negative THEN <<"-">> ELSE <<>>) \o DottedGroups(n \div 100) \o <<",">>
        \o ZeroPad(n % 100, 2) \o <<" ">> \o code

\* the hundredths next to the amount: itself, or the one below and the one above
CentsAround(amount) ==
    IF amount.exp >= -2 THEN {amount.coef * Pow10(amount.exp + 2)}
    ELSE {amount.coef \div Pow10(-2 - amount.exp), amount.coef \div Pow10(-2 - amount.exp) + 1}

IsEuropean(text, amount, code) ==
    IsFinite(amount) /\ \E n \in CentsAround(amount) :
        /\ IsNearestCents(amount, n)
        /\ text = European(amount.sign = 1, n, code)

\* C10: format_currency renders every amount with exactly 2 fractional digits,
\* a comma as the decimal separator and a period between each group of three
\* integer digits, followed by a space and the currency code: 1234.50 EUR is
\* "1.234,50 EUR", 1234567.5 is "1.234.567,50 EUR", 0 is "0,00 EUR".
C10_EuropeanRendering ==
    pc = "done" =>
        /\ IsEuropean(ret, arg.amount, arg.currency.v)
        /\ (arg = [amount |-> Dec(0, 123450, -2), currency |-> EUR] => ret = <<"1", ".", "2", "3", "4", ",", "5", "0", " ", "E", "U", "R">>)
        /\ (arg = [amount |-> Dec(0, 12345675, -1), currency |-> EUR] => ret = <<"1", ".", "2", "3", "4", ".", "5", "6", "7", ",", "5", "0", " ", "E", "U", "R">>)
        /\ (arg = [amount |-> Dec(0, 0, 0), currency |-> EUR] => ret = <<"0", ",", "0", "0", " ", "E", "U", "R">>)

\* the same for the finite amounts and the currency codes without a comma, a
\* period or an underscore
C10_LetterCodeRendering ==
    pc = "done" /\ IsFinite(arg.amount)
        /\ (\A i \in 1..Len(arg.currency.v) : arg.currency.v[i] \notin {",", ".", "_"}) =>
        /\ IsEuropean(ret, arg.amount, arg.currency.v)
        /\ (arg = [amount |-> Dec(0, 123450, -2), currency |-> EUR] => ret = <<"1", ".", "2", "3", "4", ",", "5", "0", " ", "E", "U", "R">>)
        /\ (arg = [amount |-> Dec(0, 12345675, -1), currency |-> EUR] => ret = <<"1", ".", "2", "3", "4", ".", "5", "6", "7", ",", "5", "0", " ", "E", "U", "R">>)
        /\ (arg = [amount |-> Dec(0, 0, 0), currency |-> EUR] => ret = <<"0", ",", "0", "0", " ", "E", "U", "R">>)

\* format_currency(Decimal("1234.50"), "Rs.") is "1.234,50 Rs,"
C10_CurrencyAltered ==
    /\ pc = "done"
    /\ arg = [amount |-> Dec(0, 123450, -2), currency |-> PyStr(<<"R", "s", ".">>)]
    /\ ret = <<"1", ".", "2", "3", "4", ",", "5", "0", " ", "R", "s", ",">>

\* the text occurs in the whole, character for character
Contains(whole, text) ==
    \E i \in 0..(Len(whole) - Len(text)) : SubSeq(whole, i + 1, i + Len(text)) = text

\* C11: for every amount and every currency code, the string format_currency
\* returns contains the currency code exactly as given, as the result for
\* 1234.50 and "EUR" contains "EUR": the separator swap applies to the amount
\* only, so the code follows the space unchanged.
C11_CurrencyCodeKept ==
    pc = "done" =>
        /\ Contains(ret, arg.currency.v)
        /\ SubSeq(ret, Len(ret) - Len(arg.currency.v) + 1, Len(ret)) = arg.currency.v
        /\ (arg = [amount |-> Dec(0, 123450, -2), currency |-> EUR] => Contains(ret, <<"E", "U", "R">>))

\* it is kept whenever the code holds no comma, period or underscore
C11_LetterCodeKept ==
    pc = "done" /\ (\A i \in 1..Len(arg.currency.v) : arg.currency.v[i] \notin {",", ".", "_"}) =>
        /\ Contains(ret, arg.currency.v)
        /\ SubSeq(ret, Len(ret) - Len(arg.currency.v) + 1, Len(ret)) = arg.currency.v

\* format_currency(Decimal("0"), "Rs.") is "0,00 Rs,": no "Rs." in it
C11_PeriodOfCodeSwapped ==
    /\ pc = "done"
    /\ arg = [amount |-> Dec(0, 0, 0), currency |-> PyStr(<<"R", "s", ".">>)]
    /\ ret = <<"0", ",", "0", "0", " ", "R", "s", ",">>
    /\ ~Contains(ret, <<"R", "s", ".">>)

\* the figure format_currency shows: its text up to the space before the currency
ShownFigure(text, code) == SubSeq(text, 1, Len(text) - Len(code) - 1)

\* a decimal of 2 fractional digits in the European convention
EuropeanFigure(money) ==
    (IF money.sign = 1 THEN <<"-">> ELSE <<>>) \o DottedGroups(money.coef \div 100)
        \o <<",">> \o ZeroPad(money.coef % 100, 2)

\* the amount lies halfway between two multiples of 0.01
IsCentTie(amount) ==
    /\ amount.exp < -2
    /\ 2 * (amount.coef % Pow10(-2 - amount.exp)) = Pow10(-2 - amount.exp)

\* C18: format_currency rounds the displayed amount by the same rule as the
\* model: for every decimal amount, an unrounded unit_price of 3 or more
\* fractional digits included, the digits it shows are those of
\* as_money(amount), round-half-up to 2 fractional digits.
C18_ShownAsMoney ==
    pc = "done" /\ IsFinite(arg.amount) =>
        ShownFigure(ret, arg.currency.v) = EuropeanFigure(as_money(arg.amount))

\* away from the ties the two roundings agree
C18_ShownAsMoneyOffTies ==
    pc = "done" /\ IsFinite(arg.amount) /\ ~IsCentTie(arg.amount) =>
        ShownFigure(ret, arg.currency.v) = EuropeanFigure(as_money(arg.amount))

\* format_currency(Decimal("0.125")) shows 0,12 where as_money gives 0.13
C18_TieShownEven ==
    /\ pc = "done"
    /\ arg = [amount |-> Dec(0, 125, -3), currency |-> EUR]
    /\ ret = <<"0", ",", "1", "2", " ", "E", "U", "R">>
    /\ as_money(arg.amount) = Dec(0, 13, -2)

(***************************************************************************)
(* The paths of storage.py: SpecPaths holds one invoice without items and  *)
(* calls json_path, pdf_path, ensure_output_paths and save_invoice_json    *)
(* on it, each call reading the clock when it needs a name.                *)
(***************************************************************************)
\* a plain number, none, one with a slash, one that is an absolute path
PathNumbers ==
    {PyStr(<<"I", "N", "V", "-", "1">>), EmptyStr, PyStr(<<"I", "N", "V", "/", "1">>),
     PyStr(<<"/", "t", "m", "p", "/", "x">>)}

PathInvoices ==
    {Invoice(Company(EmptyStr, EmptyStr, EmptyStr, EmptyStr, EmptyStr),
             Customer(EmptyStr, EmptyStr, EmptyStr, EmptyStr), <<>>, n,
             Date(2025, 10, 19), None, EUR, EmptyStr, EmptyStr) : n \in PathNumbers}

\* the seconds of a reading since the start of its month
SecondsOf(now) == ((now.day * 24 + now.hour) * 60 + now.minute) * 60 + now.second

\* two readings in the order the clock gives them: the same second, or later
Ticks == {t \in Clock \X Clock : SecondsOf(t[1]) <= SecondsOf(t[2])}

PathsInit ==
    /\ invoice \in PathInvoices
    /\ document = None
    /\ loaded = None
    /\ files = NoFiles
    /\ dirs = ImportedDirs
    /\ NoFrontEnd
    /\ arg = None
    /\ ret = None
    /\ pc = "constructed"

\* json_path(invoice.invoice_number or None)
JsonPath ==
    /\ invoice # None
    /\ \E now \in Clock :
        /\ arg' = [now |-> now]
        /\ ret' = json_path(OrNone(invoice.invoice_number), now)
    /\ pc' = "json_path"
    /\ UNCHANGED front
    /\ UNCHANGED <<invoice, document, loaded, files, dirs>>

\* pdf_path(invoice.invoice_number or None)
PdfPath ==
    /\ invoice # None
    /\ \E now \in Clock :
        /\ arg' = [now |-> now]
        /\ ret' = pdf_path(OrNone(invoice.invoice_number), now)
    /\ pc' = "pdf_path"
    /\ UNCHANGED front
    /\ UNCHANGED <<invoice, document, loaded, files, dirs>>

\* j, p = ensure_output_paths(invoice): json_path reads the clock, then pdf_path
EnsureOutputPaths ==
    /\ invoice # None
    /\ \E t \in Ticks :
        /\ arg' = [first |-> t[1], second |-> t[2]]
        /\ ret' = <<json_path(OrNone(invoice.invoice_number), t[1]),
                    pdf_path(OrNone(invoice.invoice_number), t[2])>>
    /\ pc' = "ensure_output_paths"
    /\ UNCHANGED front
    /\ UNCHANGED <<invoice, document, loaded, files, dirs>>

PathsNext ==
    \/ JsonPath
    \/ PdfPath
    \/ EnsureOutputPaths
    \/ SaveInvoiceJson

SpecPaths == PathsInit /\ [][PathsNext]_vars

\* Path.name
PathName(path) == SubSeq(path.v, Len(Parent(path).v) + 2, Len(path.v))

\* invoice-YYYYMMDD-HHMMSS of a reading
StampedName(now) ==
    <<"i", "n", "v", "o", "i", "c", "e", "-">> \o ZeroPad(now.year, 4) \o ZeroPad(now.month, 2)
        \o ZeroPad(now.day, 2) \o <<"-">> \o ZeroPad(now.hour, 2) \o ZeroPad(now.minute, 2)
        \o ZeroPad(now.second, 2)

\* the path is a file held in invoices/ named after the number, or after a
\* reading of the clock when there is no number
IsInvoicesFile(path, number, suffix, readings) ==
    /\ Parent(path) = INVOICES_DIR
    /\ IF number # EmptyStr THEN PathName(path) = number.v \o suffix
       ELSE \E now \in readings : PathName(path) = StampedName(now) \o suffix

\* the call wrote the document of the invoice to the path and returned it
SavedAt(path) ==
    /\ ret = path
    /\ Parent(path).v \in dirs
    /\ path.v \in DOMAIN files
    /\ files[path.v] = json_dumps(Invoice_to_dict(invoice))

\* C15: save_invoice_json without a path writes the document to a file held
\* in invoices/ named <invoice_number>.json, or invoice-YYYYMMDD-HHMMSS.json
\* of the current time when the number is empty; with a path it writes exactly
\* there; the parent directory is created if absent and the path returned is
\* the file written.  pdf_path names the same with the .pdf suffix.
C15_SavedUnderInvoices ==
    /\ pc = "save_invoice_json" /\ arg = None =>
        /\ IsInvoicesFile(ret, invoice.invoice_number, <<".", "j", "s", "o", "n">>, Clock)
        /\ SavedAt(ret)
    /\ pc = "save_invoice_json" /\ arg # None => SavedAt(arg)
    /\ pc = "json_path" =>
        IsInvoicesFile(ret, invoice.invoice_number, <<".", "j", "s", "o", "n">>, {arg.now})
    /\ pc = "pdf_path" =>
        IsInvoicesFile(ret, invoice.invoice_number, <<".", "p", "d", "f">>, {arg.now})

\* the same for the numbers without a slash
C15_PlainNumberSavedUnderInvoices ==
    (\A i \in 1..Len(invoice.invoice_number.v) : invoice.invoice_number.v[i] # "/") =>
        C15_SavedUnderInvoices

\* the invoice numbered INV/1 was saved to invoices/INV/1.json
C15_SavedInSubdirectory ==
    /\ pc = "save_invoice_json"
    /\ arg = None
    /\ invoice.invoice_number = PyStr(<<"I", "N", "V", "/", "1">>)
    /\ ret = Path(INVOICES_DIR.v \o <<"/", "I", "N", "V", "/", "1", ".", "j", "s", "o", "n">>)
    /\ ret.v \in DOMAIN files
    /\ Parent(ret) # INVOICES_DIR

\* the path without its last n characters
BaseName(path, n) == SubSeq(path.v, 1, Len(path.v) - n)

\* C17: ensure_output_paths returns a JSON path and a PDF path with the same
\* base name, differing only in the suffix, also when the name comes from the
\* clock, whatever time passes between the two readings.
C17_SameBaseName ==
    pc = "ensure_output_paths" =>
        /\ SubSeq(ret[1].v, Len(ret[1].v) - 4, Len(ret[1].v)) = <<".", "j", "s", "o", "n">>
        /\ SubSeq(ret[2].v, Len(ret[2].v) - 3, Len(ret[2].v)) = <<".", "p", "d", "f">>
        /\ BaseName(ret[1], 5) = BaseName(ret[2], 4)

\* the same when the invoice has a number or the clock did not move
C17_SameBaseNameUnlessTick ==
    pc = "ensure_output_paths" /\ (invoice.invoice_number # EmptyStr \/ arg.first = arg.second) =>
        C17_SameBaseName

\* the clock passed midnight between the reads: the two names differ
C17_NamesOneSecondApart ==
    /\ pc = "ensure_output_paths"
    /\ invoice.invoice_number = EmptyStr
    /\ PathName(ret[1]) = <<"i", "n", "v", "o", "i", "c", "e", "-", "2", "0", "2", "5", "1", "0", "1", "9", "-", "2", "3", "5", "9", "5", "9", ".", "j", "s", "o", "n">>
    /\ PathName(ret[2]) = <<"i", "n", "v", "o", "i", "c", "e", "-", "2", "0", "2", "5", "1", "0", "2", "0", "-", "0", "0", "0", "0", "0", "0", ".", "p", "d", "f">>

(***************************************************************************)
(* pdf.py.  build_pdf lays out a story of paragraphs and table cells and   *)
(* writes it when doc.build runs, at the end.  The file is modelled by the *)
(* texts of the story in their order, one to a line, after the %PDF mark:  *)
(* the markup is kept as the code writes it, the white space around the    *)
(* lines of a block, which a Paragraph drops, is left out.  Fonts, page    *)
(* geometry and ReportLab's parsing of the markup are outside the model.   *)
(***************************************************************************)
\* a text of the story, or the exception raised computing it
MoneyCell(amount, currency) ==
    IF IsExc(amount) THEN amount ELSE PyStr(format_currency(amount, currency))

\* value or '-'
OrDash(chars) == IF chars = <<>> THEN <<"-">> ELSE chars

\* company_block
CompanyBlock(company) ==
    PyStr(<<"<", "b", ">">> \o company.name.v \o <<"<", "/", "b", ">", "<", "b", "r", "/", ">">> \o company.address.v \o <<"<", "b", "r", "/", ">">>
          \o <<"G", "S", "T", "/", "V", "A", "T", ":", " ">> \o company.gst_number.v \o <<"<", "b", "r", "/", ">">>
          \o company.email.v \o <<" ", "|", " ">> \o company.phone.v)

\* meta_block
MetaBlock(self) ==
    PyStr(<<"<", "b", ">", "I", "n", "v", "o", "i", "c", "e", " ", "#", "<", "/", "b", ">", ":", " ">> \o OrDash(self.invoice_number.v) \o <<"<", "b", "r", "/", ">">>
          \o <<"<", "b", ">", "D", "a", "t", "e", "<", "/", "b", ">", ":", " ">> \o Date_isoformat(self.invoice_date) \o <<"<", "b", "r", "/", ">">>
          \o <<"<", "b", ">", "D", "u", "e", "<", "/", "b", ">", ":", " ">>
          \o (IF self.due_date # None THEN Date_isoformat(self.due_date) ELSE <<"-">>)
          \o <<"<", "b", "r", "/", ">">> \o <<"<", "b", ">", "C", "u", "r", "r", "e", "n", "c", "y", "<", "/", "b", ">", ":", " ">> \o self.currency.v)

\* bill_to
BillTo(customer) ==
    PyStr(<<"<", "b", ">", "B", "i", "l", "l", " ", "T", "o", "<", "/", "b", ">", "<", "b", "r", "/", ">">> \o customer.name.v \o <<"<", "b", "r", "/", ">">> \o customer.address.v
          \o <<"<", "b", "r", "/", ">">> \o customer.email.v \o <<" ", "|", " ">> \o customer.phone.v)

\* table_data[0]
TableHead ==
    <<PyStr(<<"D", "e", "s", "c", "r", "i", "p", "t", "i", "o", "n">>), PyStr(<<"Q", "t", "y">>), PyStr(<<"U", "n", "i", "t", " ", "P", "r", "i", "c", "e">>), PyStr(<<"T", "a", "x", " ", "%">>),
      PyStr(<<"L", "i", "n", "e", " ", "T", "o", "t", "a", "l">>)>>

\* the row of an item: description, quantity, unit price, tax rate, line total
TableRow(it, currency) ==
    <<it.description, PyStr(DecStr(it.quantity)), MoneyCell(it.unit_price, currency),
      PyStr(DecStr(it.tax_rate) \o <<"%">>), MoneyCell(Item_total(it), currency)>>

\* the rows one after the other
RECURSIVE TableRows(_, _)
TableRows(items, currency) ==
    IF items = <<>> THEN <<>>
    ELSE TableRow(Head(items), currency) \o TableRows(Tail(items), currency)

\* the totals table
TotalsRows(self) ==
    <<PyStr(<<"S", "u", "b", "t", "o", "t", "a", "l">>), MoneyCell(Invoice_subtotal(self), self.currency),
      PyStr(<<"T", "a", "x">>), MoneyCell(Invoice_tax_total(self), self.currency),
      PyStr(<<"T", "o", "t", "a", "l">>), MoneyCell(Invoice_grand_total(self), self.currency)>>

\* text.replace("\n", "<br/>")
RECURSIVE BreakLines(_)
BreakLines(chars) ==
    IF chars = <<>> THEN <<>>
    ELSE (IF Head(chars) = Newline THEN <<"<", "b", "r", "/", ">">> ELSE <<Head(chars)>>)
             \o BreakLines(Tail(chars))

\* the notes and the signature, where the invoice has them
NotesAndSignature(self) ==
    (IF Truthy(self.notes)
     THEN <<PyStr(<<"<", "b", ">", "N", "o", "t", "e", "s", "<", "/", "b", ">">>), PyStr(BreakLines(self.notes.v))>> ELSE <<>>)
    \o (IF Truthy(self.authorized_by)
        THEN <<PyStr(<<"A", "u", "t", "h", "o", "r", "i", "z", "e", "d", " ", "b", "y", ":", " ", "<", "b", ">">> \o self.authorized_by.v \o <<"<", "/", "b", ">">>)>>
        ELSE <<>>)

\* story, in the order build_pdf computes it
Story(self) ==
    <<PyStr(<<"<", "b", ">", "I", "N", "V", "O", "I", "C", "E", "<", "/", "b", ">">>), CompanyBlock(self.company), MetaBlock(self),
      BillTo(self.customer)>>
    \o TableHead \o TableRows(self.items, self.currency) \o TotalsRows(self)
    \o NotesAndSignature(self)

PdfMark == <<"%", "P", "D", "F">>

\* the file doc.build writes for a story
PdfText(story) ==
    PdfMark \o <<Newline>> \o Join([i \in 1..Len(story) |-> story[i].v], <<Newline>>)

\* doc.build(story) once the story is computed: the file written, or the
\* exception raised on the way
Built(fs_dirs, fs_files, story, output_path) ==
    IF FirstExc(story) # None THEN FirstExc(story)
    ELSE WriteText(fs_dirs, fs_files, output_path, PdfText(story))

\* build_pdf(invoice, output_path): what it returns or raises, and the files
\* it leaves where it changed them
PdfReturn(built, output_path) ==
    IF IsExc(built) THEN [ret |-> built] ELSE [ret |-> output_path, files |-> built.files]

build_pdf(fs_dirs, fs_files, self, output_path) ==
    PdfReturn(Built(fs_dirs, fs_files, Story(self), output_path), output_path)

(***************************************************************************)
(* build_pdf called on its own, as tests/test_pdf.py calls it: SpecPdf     *)
(* holds one invoice and builds its PDF at one of the paths.               *)
(***************************************************************************)
MaxPdfItems == 2

\* 2 x 100.00 at 5% / 1 x 0.005 / 3 x 0.335 at 10% / -1 x 9.99 at 5% /
\* 1234567 x 1.5
PdfItems ==
    {Item(PyStr(<<"W", "i", "d", "g", "e", "t">>), Dec(0, 2, 0), Dec(0, 10000, -2), Dec(0, 5, 0)),
     Item(PyStr(<<"x">>), Dec(0, 1, 0), Dec(0, 5, -3), Dec(0, 0, 0)),
     Item(PyStr(<<"y">>), Dec(0, 3, 0), Dec(0, 335, -3), Dec(0, 10, 0)),
     Item(PyStr(<<"z">>), Dec(1, 1, 0), Dec(0, 999, -2), Dec(0, 5, 0)),
     Item(EmptyStr, Dec(0, 1234567, 0), Dec(0, 15, -1), Dec(0, 0, 0))}

PdfLists == UNION {SeqsOfLen(PdfItems, n) : n \in 0..MaxPdfItems}

\* every list under the header of tests/test_pdf.py, the lists of one item
\* under a header with every field set
PdfInvoices ==
    {Invoice(Company(PyStr(<<"c">>), PyStr(<<"a">>), EmptyStr, EmptyStr, EmptyStr),
             Customer(PyStr(<<"u">>), PyStr(<<"a">>), EmptyStr, EmptyStr), l,
             PyStr(<<"I", "N", "V", "-", "T", "E", "S", "T">>), Date(2025, 10, 19), None, EUR, EmptyStr, EmptyStr) :
         l \in PdfLists}
    \cup {Invoice(Company(PyStr(<<"c">>), PyStr(<<"a">>), PyStr(<<"G", "1">>), PyStr(<<"e", "@", "c">>), PyStr(<<"1">>)),
                  Customer(PyStr(<<"u">>), PyStr(<<"a">>), PyStr(<<"e", "@", "u">>), PyStr(<<"2">>)), l,
                  EmptyStr, Date(2025, 1, 2), Date(2024, 2, 29), PyStr(<<"R", "s", ".">>),
                  PyStr(<<"n", "e", "t", " ", "3", "0", "\n", "t", "h", "a", "n", "k", "s">>), PyStr(<<"B", "o", "b">>)) :
              l \in SeqsOfLen(PdfItems, 1)}

\* tmp_path / "test.pdf", a path whose directory is missing, a directory
PdfPaths == {Path(<<"/", "a", "p", "p", "/", "i", "n", "v", "o", "i", "c", "e", "s", "/", "t", "e", "s", "t", ".", "p", "d", "f">>), Path(<<"/", "a", "p", "p", "/", "o", "u", "t", "/", "t", "e", "s", "t", ".", "p", "d", "f">>), INVOICES_DIR}

PdfInit ==
    /\ invoice \in PdfInvoices
    /\ document = None
    /\ loaded = None
    /\ files = NoFiles
    /\ dirs = ImportedDirs
    /\ NoFrontEnd
    /\ arg = None
    /\ ret = None
    /\ pc = "constructed"

\* build_pdf(invoice, output_path)
BuildPdf ==
    /\ invoice # None
    /\ \E output_path \in PdfPaths :
        \E built \in {build_pdf(dirs, files, invoice, output_path)} :
            /\ arg' = output_path
            /\ ret' = built.ret
            /\ files' = IF "files" \in DOMAIN built THEN built.files ELSE files
    /\ pc' = "build_pdf"
    /\ UNCHANGED front
    /\ UNCHANGED <<invoice, document, loaded, dirs>>

PdfNext == BuildPdf

SpecPdf == PdfInit /\ [][PdfNext]_vars

\* the lines of a text
RECURSIVE Lines(_)
Lines(chars) ==
    LET breaks == {i \in 1..Len(chars) : chars[i] = Newline}
        first == CHOOSE i \in breaks : \A j \in breaks : i <= j
    IN  IF breaks = {} THEN <<chars>>
        ELSE <<SubSeq(chars, 1, first - 1)>> \o Lines(SubSeq(chars, first + 1, Len(chars)))

\* the hundredths a printed figure reads as: its digits up to the space, signed
FigureCents(text) ==
    LET spaces == {i \in 1..Len(text) : text[i] = " "}
        figure == SubSeq(text, 1, (CHOOSE i \in spaces : \A j \in spaces : i <= j) - 1)
    IN  (IF figure[1] = "-" THEN -1 ELSE 1) * StrInt(SelectSeq(figure, IsDigit))

\* the Line Total cell of row k of the PDF, the Subtotal and the Total cell
LineTotalCell(lines, k) == lines[10 + 5 * k]

SubtotalCell(lines, n) == lines[12 + 5 * n]

TotalCell(lines, n) == lines[16 + 5 * n]

PdfAddsUp(lines, n) ==
    /\ Len(lines) >= 16 + 5 * n
    /\ SumInts([k \in 1..n |-> FigureCents(LineTotalCell(lines, k))])
           = FigureCents(TotalCell(lines, n))

\* C16: the line totals add up to the invoice total.  For every Invoice,
\* grand_total() is the exact sum of item.total() over its items, subtotal()
\* the exact sum of item.subtotal(), the invoice-level round2 calls change
\* nothing, and the Line Total column of the PDF sums to the Total shown.
C16_LineTotalsAddUp ==
    pc = "build_pdf" /\ ~IsExc(ret) =>
        /\ Invoice_grand_total(invoice).exp = -2
        /\ Cents(Invoice_grand_total(invoice))
               = SumInts([i \in 1..Len(invoice.items) |-> Cents(Item_total(invoice.items[i]))])
        /\ Cents(Invoice_subtotal(invoice))
               = SumInts([i \in 1..Len(invoice.items) |-> Cents(Item_subtotal(invoice.items[i]))])
        /\ \A i \in 1..Len(invoice.items) :
               Item_total(invoice.items[i]).exp = -2 /\ Item_subtotal(invoice.items[i]).exp = -2
        /\ Cents(Invoice_grand_total(invoice))
               = Cents(Invoice_subtotal(invoice)) + Cents(Invoice_tax_total(invoice))
        /\ PdfAddsUp(Lines(files[ret.v]), Len(invoice.items))
        /\ FigureCents(TotalCell(Lines(files[ret.v]), Len(invoice.items)))
               = Cents(Invoice_grand_total(invoice))

\* the PDF of the lines 210.00 and 1.11 shows the total 211,11 EUR
C16_TwoLinesPrinted ==
    /\ pc = "build_pdf"
    /\ ret = Path(<<"/", "a", "p", "p", "/", "i", "n", "v", "o", "i", "c", "e", "s", "/", "t", "e", "s", "t", ".", "p", "d", "f">>)
    /\ Len(invoice.items) = 2
    /\ LineTotalCell(Lines(files[ret.v]), 1) = <<"2", "1", "0", ",", "0", "0", " ", "E", "U", "R">>
    /\ LineTotalCell(Lines(files[ret.v]), 2) = <<"1", ",", "1", "1", " ", "E", "U", "R">>
    /\ SubtotalCell(Lines(files[ret.v]), 2) = <<"2", "0", "1", ",", "0", "1", " ", "E", "U", "R">>
    /\ TotalCell(Lines(files[ret.v]), 2) = <<"2", "1", "1", ",", "1", "1", " ", "E", "U", "R">>

(***************************************************************************)
(* scripts/cli.py: SpecCli runs the render command once, over a directory  *)
(* of invoice files as found, as left with an output directory, or as left *)
(* with the PDF of an earlier run.                                         *)
(***************************************************************************)
\* numbered INV-1 with one line / no number / a line of quantity Infinity
CliInvoice(number, items) ==
    Invoice(Company(PyStr(<<"c">>), PyStr(<<"a">>), EmptyStr, EmptyStr, EmptyStr),
            Customer(PyStr(<<"u">>), PyStr(<<"a">>), EmptyStr, EmptyStr), items, number,
            Date(2025, 10, 19), None, EUR, EmptyStr, EmptyStr)

Widget == Item(PyStr(<<"W", "i", "d", "g", "e", "t">>), Dec(0, 2, 0), Dec(0, 10000, -2), Dec(0, 5, 0))

Endless == Item(PyStr(<<"w">>), Special(0, "F", 0), Dec(0, 1, 0), Dec(0, 0, 0))

NumberedJson == Path(<<"/", "a", "p", "p", "/", "i", "n", "/", "a", ".", "j", "s", "o", "n">>)

UnnumberedJson == Path(<<"/", "a", "p", "p", "/", "i", "n", "/", "n", ".", "j", "s", "o", "n">>)

EndlessJson == Path(<<"/", "a", "p", "p", "/", "i", "n", "/", "i", "n", "f", ".", "j", "s", "o", "n">>)

TruncatedJson == Path(<<"/", "a", "p", "p", "/", "i", "n", "/", "c", "u", "t", ".", "j", "s", "o", "n">>)

NoJson == Path(<<"/", "a", "p", "p", "/", "i", "n", "/", "n", "o", "n", "e", ".", "j", "s", "o", "n">>)

CliJsons == {NumberedJson, UnnumberedJson, EndlessJson, TruncatedJson, NoJson}

\* no --out, a path in a directory to make, a path under a file
CliOuts == {None, Path(<<"/", "a", "p", "p", "/", "o", "u", "t", "/", "a", ".", "p", "d", "f">>), Path(<<"/", "a", "p", "p", "/", "i", "n", "/", "a", ".", "j", "s", "o", "n", "/", "a", ".", "p", "d", "f">>)}

CliFiles ==
    [p \in {NumberedJson.v, UnnumberedJson.v, EndlessJson.v, TruncatedJson.v} |->
        IF p = NumberedJson.v
        THEN json_dumps(Invoice_to_dict(CliInvoice(PyStr(<<"I", "N", "V", "-", "1">>), <<Widget>>)))
        ELSE IF p = UnnumberedJson.v
        THEN json_dumps(Invoice_to_dict(CliInvoice(EmptyStr, <<Widget, Widget>>)))
        ELSE IF p = EndlessJson.v
        THEN json_dumps(Invoice_to_dict(CliInvoice(PyStr(<<"I", "N", "V", "-", "2">>), <<Widget, Endless>>)))
        ELSE SubSeq(json_dumps(Invoice_to_dict(CliInvoice(PyStr(<<"I", "N", "V", "-", "1">>), <<Widget>>))), 1, 40)]

\* an earlier PDF at the path
WithPdf(fs_files, path) ==
    [p \in DOMAIN fs_files \cup {path.v} |-> IF p = path.v THEN PdfMark ELSE fs_files[p]]

CliDirs == ImportedDirs \cup {<<"/", "a", "p", "p", "/", "i", "n">>}

OutDir == <<"/", "a", "p", "p", "/", "o", "u", "t">>

\* the directory trees a run starts from
CliTrees ==
    {[dirs |-> CliDirs, files |-> CliFiles],
     [dirs |-> CliDirs \cup {OutDir}, files |-> CliFiles],
     [dirs |-> CliDirs \cup {OutDir}, files |-> WithPdf(CliFiles, Path(OutDir \o <<"/", "a", ".", "p", "d", "f">>))],
     [dirs |-> CliDirs, files |-> WithPdf(CliFiles, pdf_path(PyStr(<<"I", "N", "V", "-", "1">>), CHOOSE now \in Clock : TRUE))]}

CliInit ==
    /\ invoice = None
    /\ document = None
    /\ loaded = None
    /\ \E tree \in CliTrees : files = tree.files /\ dirs = tree.dirs
    /\ arg = None
    /\ ret = None
    /\ pc = "shell"
    /\ form = None
    /\ rows = <<>>
    /\ dialog = None
    /\ shown = <<>>
    /\ stdout = <<>>

\* out = args.out or pdf_path(inv.invoice_number or None)
RenderTarget(inv, out, now) ==
    IF out # None THEN out ELSE pdf_path(OrNone(inv.invoice_number), now)

\* print(f"PDF written to {out}")
WrittenLine(out) == <<"P", "D", "F", " ", "w", "r", "i", "t", "t", "e", "n", " ", "t", "o", " ">> \o out.v

\* build_pdf(inv, out), print, return 0 once out.parent.mkdir has run
RenderBuilt(out, made, built) ==
    IF IsExc(built.ret) THEN [ret |-> built.ret, dirs |-> made.dirs, stdout |-> <<>>]
    ELSE [ret |-> PyInt(0), dirs |-> made.dirs, files |-> built.files,
          stdout |-> <<WrittenLine(out)>>]

RenderMade(fs_files, inv, out, made) ==
    IF IsExc(made) THEN [ret |-> made, stdout |-> <<>>]
    ELSE RenderBuilt(out, made, build_pdf(made.dirs, fs_files, inv, out))

\* the lines of main after the load
Render(fs_dirs, fs_files, inv, out) ==
    RenderMade(fs_files, inv, out, Mkdir(fs_dirs, fs_files, Parent(out)))

\* main([json, "--out", out]): what it returns or raises, what it prints,
\* and the directories and files it leaves where it changed them
main(fs_dirs, fs_files, json, out, inv, now) ==
    IF IsExc(inv) THEN [ret |-> inv, stdout |-> <<>>]
    ELSE Render(fs_dirs, fs_files, inv, RenderTarget(inv, out, now))

\* python scripts/cli.py json [--out out], run in the directory tree as it is
Main ==
    /\ pc = "shell"
    /\ \E json \in CliJsons, out \in CliOuts, now \in Clock :
        \E inv \in {load_invoice_json(dirs, files, json, Today(now))} :
            \E run \in {main(dirs, files, json, out, inv, now)} :
                /\ arg' = [json |-> json, out |-> out, now |-> now,
                           tree |-> [dirs |-> dirs, files |-> files]]
                /\ loaded' = inv
                /\ ret' = run.ret
                /\ stdout' = run.stdout
                /\ dirs' = IF "dirs" \in DOMAIN run THEN run.dirs ELSE dirs
                /\ files' = IF "files" \in DOMAIN run THEN run.files ELSE files
    /\ pc' = "main"
    /\ UNCHANGED <<invoice, document, form, rows, dialog, shown>>

CliNext == Main

SpecCli == CliInit /\ [][CliNext]_vars

\* --out, or invoices/<invoice_number>.pdf, or invoices/invoice-<stamp>.pdf
DocumentedTarget(inv, out, now) ==
    IF out # None THEN out
    ELSE IF inv.invoice_number # EmptyStr
    THEN Path(INVOICES_DIR.v \o <<"/">> \o inv.invoice_number.v \o <<".", "p", "d", "f">>)
    ELSE Path(INVOICES_DIR.v \o <<"/">> \o StampedName(now) \o <<".", "p", "d", "f">>)

IsPdf(text) == Len(text) >= 4 /\ SubSeq(text, 1, 4) = PdfMark

\* the run left a PDF at the path, its directory made, printed the path and
\* returned 0
Rendered(out) ==
    /\ ret = PyInt(0)
    /\ Parent(out).v \in dirs
    /\ out.v \in DOMAIN files
    /\ IsPdf(files[out.v])
    /\ stdout = <<<<"P", "D", "F", " ", "w", "r", "i", "t", "t", "e", "n", " ", "t", "o", " ">> \o out.v>>

\* the run rendered the invoice it loaded where the command line says
RenderedAsDocumented == Rendered(DocumentedTarget(loaded, arg.out, arg.now))

\* the load failed: the run did not return 0 and printed nothing
NotRendered == IsExc(ret) /\ ret = loaded /\ stdout = <<>>

\* C14: the render command, given a path to a loadable invoice JSON, produces
\* a PDF at the --out path when one is supplied and otherwise at
\* invoices/<invoice_number>.pdf (a timestamp-derived name when the number is
\* empty), creating the output's parent directory if absent, prints the path
\* and returns exit code 0; the invoice is loaded before any output directory
\* or file is created, so a failing load writes no PDF and does not return 0.
C14_RenderedOrNothing ==
    pc = "main" =>
        /\ ~IsExc(loaded) => RenderedAsDocumented
        /\ IsExc(loaded) => NotRendered /\ files = arg.tree.files /\ dirs = arg.tree.dirs

\* the lines of the invoice are finite and the directory of the output can
\* be made
CanRender(inv, out) ==
    /\ \A i \in 1..Len(inv.items) :
           /\ IsFinite(inv.items[i].quantity)
           /\ IsFinite(inv.items[i].unit_price)
           /\ IsFinite(inv.items[i].tax_rate)
    /\ out = None \/ \A a \in Parents(out) : a.v \notin DOMAIN files

\* the same for the invoices that can be rendered
C14_RenderedWhenFinite ==
    pc = "main" =>
        /\ ~IsExc(loaded) /\ CanRender(loaded, arg.out) => RenderedAsDocumented
        /\ IsExc(loaded) => NotRendered /\ files = arg.tree.files /\ dirs = arg.tree.dirs

\* the invoice with a quantity of Infinity was loaded, the directory of --out
\* was made, and the run ended in InvalidOperation without a PDF
C14_LoadedButNotRendered ==
    /\ pc = "main"
    /\ arg.json = EndlessJson
    /\ arg.out = Path(<<"/", "a", "p", "p", "/", "o", "u", "t", "/", "a", ".", "p", "d", "f">>)
    /\ OutDir \notin arg.tree.dirs
    /\ ~IsExc(loaded)
    /\ ret = Raised("InvalidOperation")
    /\ Parent(arg.out).v \in dirs
    /\ arg.out.v \notin DOMAIN files
    /\ stdout = <<>>

(***************************************************************************)
(* gui.py: the desktop form.  form maps each LabeledEntry of App to the    *)
(* text of its StringVar, rows are the value tuples of the Treeview rows   *)
(* in order, dialog is the open ItemDialog (None when there is none), and  *)
(* shown lists the message boxes the last handler put up.  A handler that  *)
(* raises is reported by Tk and the main loop goes on: ret holds what the  *)
(* last handler returned or raised.                                        *)
(***************************************************************************)
\* the names bound in the namespace of gui.py: its imports and its classes
GuiGlobals == {"annotations", "tk", "ttk", "messagebox", "filedialog", "date", "Decimal", "Company", "Customer", "Item", "Invoice", "parse_decimal", "save_invoice_json", "load_invoice_json", "pdf_path", "build_pdf", "LabeledEntry", "ItemsTable", "ItemDialog", "App"}

\* the lookup of a global name when the line that uses it runs
LoadGlobal(name) ==
    IF name \in GuiGlobals THEN [t |-> "global", name |-> name] ELSE Raised("NameError")

\* LabeledEntry.get
LabeledEntry_get(var) == Strip(var)

\* the entries of App, in the order clear_all empties them
Entries == <<"c_name", "c_addr", "c_gst", "c_email", "c_phone", "u_name", "u_addr", "u_email", "u_phone", "inv_no", "inv_date", "due_date", "currency", "notes", "auth">>

EntryNames == {Entries[i] : i \in 1..Len(Entries)}

\* App.prefill_defaults
prefill_defaults(entries, today) ==
    [entries EXCEPT !["currency"] = EUR.v, !["inv_date"] = Date_isoformat(today)]

\* a messagebox call
MessageBox(box, title, message) == [box |-> box, title |-> title, message |-> message]

\* the values tuple tree.insert and tree.item store for an Item
RowValues(it) ==
    <<it.description.v, DecStr(it.quantity), DecStr(it.unit_price), DecStr(it.tax_rate)>>

\* Item(description=values[0], quantity=Decimal(values[1]), ...)
ItemOfValues(values) ==
    ItemOf(PyStr(values[1]), DecParse(values[2]), DecParse(values[3]), DecParse(values[4]))

\* ItemsTable.items
ItemsTable_items(tree) == ListOf([i \in 1..Len(tree) |-> ItemOfValues(tree[i])])

\* ItemDialog(master, item) as add_row or edit_row opens it on the row sel
ItemDialog(item, caller, sel) ==
    [desc |-> IF item = None THEN <<>> ELSE item.description.v,
     qty |-> IF item = None THEN <<>> ELSE DecStr(item.quantity),
     uprice |-> IF item = None THEN <<>> ELSE DecStr(item.unit_price),
     tax |-> IF item = None THEN <<>> ELSE DecStr(item.tax_rate),
     result |-> None, caller |-> caller, sel |-> sel]

\* the Item of ItemDialog.on_ok, or the exception its construction raised
Entered(self) ==
    ItemOf(PyStr(LabeledEntry_get(self.desc)),
           parse_decimal(PyStr(LabeledEntry_get(self.qty)), PyStr(<<"0">>)),
           parse_decimal(PyStr(LabeledEntry_get(self.uprice)), PyStr(<<"0">>)),
           parse_decimal(PyStr(LabeledEntry_get(self.tax)), PyStr(<<"0">>)))

\* str(e) of the exceptions of the model: the name of the class
ExcText(e) == e.exc

\* ItemDialog.on_ok: the dialog afterwards (None once destroyed), its result
\* and the message boxes shown
on_ok(self, it) ==
    IF IsExc(it)
    THEN [dialog |-> self, result |-> None,
          shown |-> <<MessageBox("showerror", "Invalid input", ExcText(it))>>]
    ELSE [dialog |-> None, result |-> it, shown |-> <<>>]

\* the rows once wait_window has returned in add_row or edit_row
AfterDialog(tree, self, result) ==
    IF result = None THEN tree
    ELSE IF self.caller = "add_row" THEN Append(tree, RowValues(result))
    ELSE [tree EXCEPT ![self.sel] = RowValues(result)]

\* date.fromisoformat(self.due_date.get()) if self.due_date.get() else None
DueDateOf(text) == IF text = <<>> THEN None ELSE Date_fromisoformat(PyStr(text))

\* App.build_invoice
build_invoice(entries, tree, today) ==
    InvoiceOf(Company(PyStr(LabeledEntry_get(entries["c_name"])),
                      PyStr(LabeledEntry_get(entries["c_addr"])),
                      PyStr(LabeledEntry_get(entries["c_gst"])),
                      PyStr(LabeledEntry_get(entries["c_email"])),
                      PyStr(LabeledEntry_get(entries["c_phone"]))),
              Customer(PyStr(LabeledEntry_get(entries["u_name"])),
                       PyStr(LabeledEntry_get(entries["u_addr"])),
                       PyStr(LabeledEntry_get(entries["u_email"])),
                       PyStr(LabeledEntry_get(entries["u_phone"]))),
              ItemsTable_items(tree),
              PyStr(LabeledEntry_get(entries["inv_no"])),
              Date_fromisoformat(PyStr(IF LabeledEntry_get(entries["inv_date"]) # <<>>
                                       THEN LabeledEntry_get(entries["inv_date"])
                                       ELSE Date_isoformat(today))),
              DueDateOf(LabeledEntry_get(entries["due_date"])),
              IF LabeledEntry_get(entries["currency"]) # <<>>
              THEN PyStr(LabeledEntry_get(entries["currency"])) ELSE EUR,
              PyStr(LabeledEntry_get(entries["notes"])),
              PyStr(LabeledEntry_get(entries["auth"])))

\* App.clear_all: the entries afterwards (the rows are all deleted)
clear_all(entries, today) == prefill_defaults([e \in DOMAIN entries |-> <<>>], today)

\* App.load_into_form: the entries and the rows afterwards
load_into_form(inv) ==
    [form |-> [e \in EntryNames |->
                 CASE e = "c_name" -> inv.company.name.v
                   [] e = "c_addr" -> inv.company.address.v
                   [] e = "c_gst" -> inv.company.gst_number.v
                   [] e = "c_email" -> inv.company.email.v
                   [] e = "c_phone" -> inv.company.phone.v
                   [] e = "u_name" -> inv.customer.name.v
                   [] e = "u_addr" -> inv.customer.address.v
                   [] e = "u_email" -> inv.customer.email.v
                   [] e = "u_phone" -> inv.customer.phone.v
                   [] e = "inv_no" -> inv.invoice_number.v
                   [] e = "inv_date" -> Date_isoformat(inv.invoice_date)
                   [] e = "due_date" ->
                        IF inv.due_date = None THEN <<>> ELSE Date_isoformat(inv.due_date)
                   [] e = "currency" -> inv.currency.v
                   [] e = "notes" -> inv.notes.v
                   [] e = "auth" -> inv.authorized_by.v],
     rows |-> [i \in 1..Len(inv.items) |-> RowValues(inv.items[i])]]
\* save_invoice_json(inv, Path(path)) has returned: the showinfo of save_json
Saved(saved, path) ==
    IF IsExc(saved.ret) THEN [ret |-> saved.ret, shown |-> <<>>]
    ELSE [ret |-> None, dirs |-> saved.dirs, files |-> saved.files,
          shown |-> <<MessageBox("showinfo", "Saved", <<"I", "n", "v", "o", "i", "c", "e", " ", "s", "a", "v", "e", "d", " ", "t", "o", "\n">> \o path)>>]

\* App.save_json with the answer of the file dialog ("" when cancelled): what
\* the handler returns or raises, the boxes it shows, the files it leaves
save_json(fs_dirs, fs_files, inv, path) ==
    IF IsExc(inv) THEN [ret |-> inv, shown |-> <<>>]
    ELSE IF path = <<>> THEN [ret |-> None, shown |-> <<>>]
    ELSE IF IsExc(LoadGlobal("Path")) THEN [ret |-> LoadGlobal("Path"), shown |-> <<>>]
    ELSE Saved(save_invoice_json(fs_dirs, fs_files, inv, Path(path)), path)

\* build_pdf(inv, Path(path)) has returned: the showinfo of export_pdf
Exported(built, path) ==
    IF IsExc(built.ret) THEN [ret |-> built.ret, shown |-> <<>>]
    ELSE [ret |-> None, files |-> built.files,
          shown |-> <<MessageBox("showinfo", "Exported", <<"P", "D", "F", " ", "w", "r", "i", "t", "t", "e", "n", " ", "t", "o", "\n">> \o path)>>]

\* App.export_pdf with the answer of the file dialog
export_pdf(fs_dirs, fs_files, inv, path) ==
    IF IsExc(inv) THEN [ret |-> inv, shown |-> <<>>]
    ELSE IF path = <<>> THEN [ret |-> None, shown |-> <<>>]
    ELSE IF IsExc(LoadGlobal("Path")) THEN [ret |-> LoadGlobal("Path"), shown |-> <<>>]
    ELSE Exported(build_pdf(fs_dirs, fs_files, inv, Path(path)), path)

\* self.load_into_form(inv) once load_invoice_json has returned
Opened(inv) ==
    IF IsExc(inv) THEN [ret |-> inv]
    ELSE [ret |-> None, form |-> load_into_form(inv).form, rows |-> load_into_form(inv).rows]

\* App.open_json with the answer of the file dialog: what the handler returns
\* or raises, and the entries and rows it leaves where it changed them
open_json(fs_dirs, fs_files, path, today) ==
    IF path = <<>> THEN [ret |-> None]
    ELSE IF IsExc(LoadGlobal("Path")) THEN [ret |-> LoadGlobal("Path")]
    ELSE Opened(load_invoice_json(fs_dirs, fs_files, Path(path), today))

(***************************************************************************)
(* The running application: SpecGui starts from the window App.__init__    *)
(* builds and takes the steps of a user, a button handler at a time.  The  *)
(* item dialog grabs the input, so while it is open only its own entries   *)
(* and buttons respond.  arg records the handler that ran last with the    *)
(* form, the rows and the dialog it started from.                          *)
(***************************************************************************)
MaxRows == 2

\* what the user types into the entries of the form and of the item dialog
TypedEntries == [inv_no |-> {<<"I", "N", "V", "-", "1">>}, due_date |-> {<<"s", "o", "o", "n">>}]

TypedItem == [desc |-> {<<" ">>, <<"w">>}, qty |-> {<<"2">>, <<"i", "n", "f">>}]

\* the answers of the file dialogs: "" when cancelled, or the path chosen
SaveAnswers == {<<>>, <<"/", "a", "p", "p", "/", "i", "n", "v", "o", "i", "c", "e", "s", "/", "I", "N", "V", "-", "1", ".", "j", "s", "o", "n">>}

OpenAnswers == {<<>>, NumberedJson.v}

ExportAnswers == {<<>>, <<"/", "a", "p", "p", "/", "i", "n", "v", "o", "i", "c", "e", "s", "/", "I", "N", "V", "-", "1", ".", "p", "d", "f">>}

GuiInit ==
    /\ invoice = None
    /\ document = None
    /\ loaded = None
    /\ files = CliFiles
    /\ dirs = CliDirs
    /\ arg = [op |-> "__init__"]
    /\ ret = None
    /\ pc = "mainloop"
    /\ \E now \in Clock : form = prefill_defaults([e \in EntryNames |-> <<>>], Today(now))
    /\ rows = <<>>
    /\ dialog = None
    /\ shown = <<>>
    /\ stdout = <<>>

\* the user types into an entry of the form
SetEntry ==
    /\ dialog = None
    /\ \E e \in DOMAIN TypedEntries : \E text \in TypedEntries[e] :
        form' = [form EXCEPT ![e] = text]
    /\ arg' = [op |-> "entry"]
    /\ ret' = None
    /\ shown' = <<>>
    /\ UNCHANGED <<invoice, document, loaded, files, dirs, pc, rows, dialog, stdout>>

\* the New button
ClearAll ==
    /\ dialog = None
    /\ \E now \in Clock : form' = clear_all(form, Today(now))
    /\ rows' = <<>>
    /\ arg' = [op |-> "clear_all"]
    /\ ret' = None
    /\ shown' = <<>>
    /\ UNCHANGED <<invoice, document, loaded, files, dirs, pc, dialog, stdout>>

\* the Add button: add_row up to wait_window
AddRow ==
    /\ dialog = None
    /\ Len(rows) < MaxRows
    /\ dialog' = ItemDialog(None, "add_row", 0)
    /\ arg' = [op |-> "add_row"]
    /\ ret' = None
    /\ shown' = <<>>
    /\ UNCHANGED <<invoice, document, loaded, files, dirs, pc, form, rows, stdout>>

\* the Edit button with the row sel selected first (0: no selection):
\* edit_row up to wait_window
EditRow ==
    /\ dialog = None
    /\ \E sel \in 0..Len(rows) :
        \E it \in {IF sel = 0 THEN None ELSE ItemOfValues(rows[sel])} :
            /\ dialog' = IF sel = 0 \/ IsExc(it) THEN None ELSE ItemDialog(it, "edit_row", sel)
            /\ shown' = IF sel = 0
                        THEN <<MessageBox("showinfo", "Edit Item", <<"S", "e", "l", "e", "c", "t", " ", "a", " ", "r", "o", "w", " ", "t", "o", " ", "e", "d", "i", "t", ".">>)>>
                        ELSE <<>>
            /\ ret' = IF sel # 0 /\ IsExc(it) THEN it ELSE None
    /\ arg' = [op |-> "edit_row"]
    /\ UNCHANGED <<invoice, document, loaded, files, dirs, pc, form, rows, stdout>>

\* the Delete button with the rows sel selected
DeleteRow ==
    /\ dialog = None
    /\ \E sel \in SUBSET (1..Len(rows)) :
        rows' = SelectSeq([i \in 1..Len(rows) |-> IF i \in sel THEN <<>> ELSE rows[i]],
                          LAMBDA values : values # <<>>)
    /\ arg' = [op |-> "delete_row"]
    /\ ret' = None
    /\ shown' = <<>>
    /\ UNCHANGED <<invoice, document, loaded, files, dirs, pc, form, dialog, stdout>>

\* the user types into an entry of the item dialog
SetItemEntry ==
    /\ dialog # None
    /\ \E e \in DOMAIN TypedItem : \E text \in TypedItem[e] :
        dialog' = [dialog EXCEPT ![e] = text]
    /\ arg' = [op |-> "entry"]
    /\ ret' = None
    /\ shown' = <<>>
    /\ UNCHANGED <<invoice, document, loaded, files, dirs, pc, form, rows, stdout>>

\* the OK button of the item dialog, and the rest of add_row or edit_row when
\* the dialog is destroyed; ret is dlg.result as the caller reads it
OnOk ==
    /\ dialog # None
    /\ \E done \in {on_ok(dialog, Entered(dialog))} :
        /\ dialog' = done.dialog
        /\ shown' = done.shown
        /\ ret' = done.result
        /\ rows' = AfterDialog(rows, dialog, done.result)
    /\ arg' = [op |-> "on_ok", form |-> form, rows |-> rows, dialog |-> dialog]
    /\ UNCHANGED <<invoice, document, loaded, files, dirs, pc, form, stdout>>

\* the Cancel button of the item dialog: destroy, and the rest of the caller
Cancel ==
    /\ dialog # None
    /\ dialog' = None
    /\ rows' = AfterDialog(rows, dialog, dialog.result)
    /\ arg' = [op |-> "destroy"]
    /\ ret' = None
    /\ shown' = <<>>
    /\ UNCHANGED <<invoice, document, loaded, files, dirs, pc, form, stdout>>

\* the file dialog is put up once build_invoice has returned
Asked(inv, path) == IF IsExc(inv) THEN None ELSE PyStr(path)

\* the Save JSON button
SaveJson ==
    /\ dialog = None
    /\ \E path \in SaveAnswers, now \in Clock :
        \E inv \in {build_invoice(form, rows, Today(now))} :
            \E run \in {save_json(dirs, files, inv, path)} :
                /\ arg' = [op |-> "save_json", form |-> form, rows |-> rows,
                           tree |-> [dirs |-> dirs, files |-> files],
                           path |-> Asked(inv, path)]
                /\ ret' = run.ret
                /\ shown' = run.shown
                /\ dirs' = IF "dirs" \in DOMAIN run THEN run.dirs ELSE dirs
                /\ files' = IF "files" \in DOMAIN run THEN run.files ELSE files
    /\ UNCHANGED <<invoice, document, loaded, pc, form, rows, dialog, stdout>>

\* the Open JSON button
OpenJson ==
    /\ dialog = None
    /\ \E path \in OpenAnswers, now \in Clock :
        \E run \in {open_json(dirs, files, path, Today(now))} :
            /\ arg' = [op |-> "open_json", form |-> form, rows |-> rows,
                       tree |-> [dirs |-> dirs, files |-> files], path |-> PyStr(path)]
            /\ ret' = run.ret
            /\ form' = IF "form" \in DOMAIN run THEN run.form ELSE form
            /\ rows' = IF "rows" \in DOMAIN run THEN run.rows ELSE rows
    /\ shown' = <<>>
    /\ UNCHANGED <<invoice, document, loaded, files, dirs, pc, dialog, stdout>>

\* the Export PDF button
ExportPdf ==
    /\ dialog = None
    /\ \E path \in ExportAnswers, now \in Clock :
        \E inv \in {build_invoice(form, rows, Today(now))} :
            \E run \in {export_pdf(dirs, files, inv, path)} :
                /\ arg' = [op |-> "export_pdf", form |-> form, rows |-> rows,
                           tree |-> [dirs |-> dirs, files |-> files],
                           path |-> Asked(inv, path)]
                /\ ret' = run.ret
                /\ shown' = run.shown
                /\ files' = IF "files" \in DOMAIN run THEN run.files ELSE files
    /\ UNCHANGED <<invoice, document, loaded, dirs, pc, form, rows, dialog, stdout>>

GuiNext ==
    \/ SetEntry
    \/ ClearAll
    \/ AddRow
    \/ EditRow
    \/ DeleteRow
    \/ SetItemEntry
    \/ OnOk
    \/ Cancel
    \/ SaveJson
    \/ OpenJson
    \/ ExportPdf

SpecGui == GuiInit /\ [][GuiNext]_vars

\* OK was pressed in the item dialog with the description entry blank
BlankDescription == arg.op = "on_ok" /\ LabeledEntry_get(arg.dialog.desc) = <<>>

\* C12: in the item dialog, pressing OK while a required field such as the
\* item description is blank is rejected at the point of entry: a message
\* identifying the problem is shown, the dialog yields no Item (its result
\* stays unset), no row is added to or changed in the items table, and the
\* rest of the form state is left unmodified.
C12_BlankDescriptionRejected ==
    BlankDescription =>
        /\ Len(shown) = 1
        /\ shown[1].box = "showerror"
        /\ ret = None
        /\ rows = arg.rows
        /\ form = arg.form

\* what the handler does instead: OK never shows a message and always yields
\* an Item, closes the dialog and leaves the entries of the form alone
C12_OkAlwaysAccepted ==
    arg.op = "on_ok" =>
        /\ shown = <<>>
        /\ ret # None
        /\ ~IsExc(ret)
        /\ dialog = None
        /\ form = arg.form
        /\ rows = AfterDialog(arg.rows, arg.dialog, ret)

\* Add, then OK with every entry of the dialog blank: no message, and a row
\* with an empty description and zeros is in the table
C12_BlankRowAdded ==
    /\ BlankDescription
    /\ arg.dialog.caller = "add_row"
    /\ arg.dialog.qty = <<>>
    /\ shown = <<>>
    /\ dialog = None
    /\ ret = Item(EmptyStr, Dec(0, 0, 0), Dec(0, 0, 0), Dec(0, 0, 0))
    /\ rows = Append(arg.rows, <<<<>>, <<"0">>, <<"0">>, <<"0">>>>)

\* the invoice of the form the handler started from (its date entry is never
\* blank, so the clock is not read)
FormInvoice == build_invoice(arg.form, arg.rows, Today(CHOOSE now \in Clock : TRUE))

\* the file dialog was put up and answered with a path / cancelled
Confirmed == arg.path # None /\ arg.path # EmptyStr

Cancelled == arg.path = EmptyStr

NothingWritten == files = arg.tree.files /\ dirs = arg.tree.dirs

\* C13: from the desktop form, whenever the user triggers Save JSON (or
\* Export PDF) with valid form contents and confirms a file path in the
\* dialog, the action completes by writing the invoice built from the current
\* form state to that path as a JSON record (or a PDF) and then shows the
\* confirmation message; when the user cancels the dialog nothing is written.
\* Likewise Open JSON with a confirmed path loads that file into the form.
C13_FormActionsComplete ==
    /\ arg.op = "save_json" /\ Confirmed =>
        /\ ret = None
        /\ arg.path.v \in DOMAIN files
        /\ files[arg.path.v] = json_dumps(Invoice_to_dict(FormInvoice))
        /\ shown = <<MessageBox("showinfo", "Saved", <<"I", "n", "v", "o", "i", "c", "e", " ", "s", "a", "v", "e", "d", " ", "t", "o", "\n">> \o arg.path.v)>>
    /\ arg.op = "export_pdf" /\ Confirmed /\ CanRender(FormInvoice, None) =>
        /\ ret = None
        /\ arg.path.v \in DOMAIN files
        /\ IsPdf(files[arg.path.v])
        /\ shown = <<MessageBox("showinfo", "Exported", <<"P", "D", "F", " ", "w", "r", "i", "t", "t", "e", "n", " ", "t", "o", "\n">> \o arg.path.v)>>
    /\ arg.op = "open_json" /\ Confirmed =>
        /\ ret = None
        /\ \E now \in Clock :
            \E inv \in {load_invoice_json(arg.tree.dirs, arg.tree.files, Path(arg.path.v), Today(now))} :
                ~IsExc(inv) /\ form = load_into_form(inv).form /\ rows = load_into_form(inv).rows
    /\ arg.op \in {"save_json", "export_pdf", "open_json"} /\ Cancelled =>
        ret = None /\ NothingWritten /\ shown = <<>> /\ form = arg.form /\ rows = arg.rows

\* what the handlers do instead: a cancelled dialog changes nothing, and a
\* confirmed path ends the handler in NameError with nothing written, loaded
\* or shown
C13_ConfirmedPathRaises ==
    arg.op \in {"save_json", "export_pdf", "open_json"} =>
        /\ NothingWritten
        /\ shown = <<>>
        /\ form = arg.form
        /\ rows = arg.rows
        /\ Cancelled => ret = None
        /\ Confirmed => ret = Raised("NameError")

\* Save JSON on a form with one finite row and a confirmed path: NameError,
\* no file at the path and no confirmation
C13_SaveRaisedNameError ==
    /\ arg.op = "save_json"
    /\ Confirmed
    /\ arg.rows = <<<<<<"w">>, <<"2">>, <<"0">>, <<"0">>>>>>
    /\ arg.form["inv_no"] = <<"I", "N", "V", "-", "1">>
    /\ ~IsExc(FormInvoice)
    /\ ret = Raised("NameError")
    /\ arg.path.v \notin DOMAIN files
    /\ shown = <<>>

\* OK was pressed in the item dialog and the dialog yielded an Item
Accepted == arg.op = "on_ok" /\ ret # None /\ ~IsExc(ret)

Computable(it) ==
    ~IsExc(Item_subtotal(it)) /\ ~IsExc(Item_tax_amount(it)) /\ ~IsExc(Item_total(it))

\* C19: every value parse_decimal returns for a string input with a numeric
\* default is a finite decimal number (never NaN or Infinity), so for every
\* Item the item dialog accepts on OK, subtotal(), tax_amount() and total()
\* can be computed without error when the invoice is later saved or exported.
C19_AcceptedItemsComputable ==
    Accepted =>
        /\ IsFinite(ret.quantity)
        /\ IsFinite(ret.unit_price)
        /\ IsFinite(ret.tax_rate)
        /\ Computable(ret)

\* the text of an entry is blank or a decimal in plain notation
PlainOrBlank(text) ==
    LabeledEntry_get(text) = <<>> \/ IsPlainDecimal(Periods(LabeledEntry_get(text)))

\* the same for the dialogs whose numeric entries hold plain decimals
C19_PlainEntriesComputable ==
    Accepted /\ PlainOrBlank(arg.dialog.qty) /\ PlainOrBlank(arg.dialog.uprice)
             /\ PlainOrBlank(arg.dialog.tax) =>
        /\ IsFinite(ret.quantity)
        /\ IsFinite(ret.unit_price)
        /\ IsFinite(ret.tax_rate)
        /\ Computable(ret)

\* OK with "inf" as the quantity: the Item is accepted with a quantity of
\* Infinity, its row is in the table, and its amounts raise InvalidOperation
C19_InfinityAccepted ==
    /\ Accepted
    /\ arg.dialog.caller = "add_row"
    /\ arg.dialog.qty = <<"i", "n", "f">>
    /\ ret.quantity = Special(0, "F", 0)
    /\ rows = Append(arg.rows, <<LabeledEntry_get(arg.dialog.desc), <<"I", "n", "f", "i", "n", "i", "t", "y">>, <<"0">>, <<"0">>>>)
    /\ Item_subtotal(ret) = Raised("InvalidOperation")
    /\ Item_tax_amount(ret) = Raised("InvalidOperation")
    /\ Item_total(ret) = Raised("InvalidOperation")

====
